---- MODULE Spec2Model ----
(***************************************************************************)
(* x402 on Push Chain: the on-chain X402PaymentRegistry, the facilitator's *)
(* VerificationService and SettlementService, as one state machine.        *)
(*                                                                         *)
(* Spec       : the registry contract driven by arbitrary callers.         *)
(* SpecVerify : VerificationService.verifyPayment applied to bounded       *)
(*              requests.                                                  *)
(* SpecSettle : concurrent SettlementService.settlePayment requests        *)
(*              against the registry.                                      *)
(***************************************************************************)
EXTENDS Integers, Sequences, FiniteSets, TLC

VARIABLES
    roles,                \* AccessControl: set of <<role, account>>
    paymentRequirements,  \* merchant -> resource -> PaymentRequirement
    paymentRecords,       \* paymentId -> PaymentRecord (absent key = zero struct)
    merchantPayments,     \* merchant -> sequence of paymentIds
    settledEvents,        \* paymentId -> number of PaymentSettled events emitted
    blockTimestamp,       \* block.timestamp of the block being mined
    lastCall,             \* the last registry transaction and its outcome
    clock,                \* the facilitator's Math.floor(Date.now() / 1000)
    supportedTokens,      \* X402TokenManager.isSupportedToken as a set
    settle,               \* per request slot: position and locals of settlePayment
    verifyCall,           \* the last standalone verifyPayment call and its result
    statusCall,           \* the last GET /status/:paymentId request and its response
    middleware,           \* per HTTP request: position and locals of x402Middleware
    escrows,              \* X402PaymentEscrow: escrowId -> Escrow (absent key = zero struct)
    escrowFunds,          \* asset -> what the escrow contract holds of it
    escrowCall,           \* the last escrow transaction and its outcome
    tokens,               \* X402TokenManager: token address -> TokenInfo
    tokenList,            \* X402TokenManager: the array of supported token addresses
    tokenCall             \* the last token manager transaction and its outcome

registryVars == <<roles, paymentRequirements, paymentRecords, merchantPayments, settledEvents>>
ledgerVars == <<paymentRecords, merchantPayments, settledEvents>>
vars == <<roles, paymentRequirements, paymentRecords, merchantPayments, settledEvents,
          blockTimestamp, lastCall, clock, supportedTokens, settle, verifyCall, statusCall,
          middleware, escrows, escrowFunds, escrowCall, tokens, tokenList, tokenCall>>

escrowVars == <<escrows, escrowFunds, escrowCall>>
tokenVars == <<tokens, tokenList, tokenCall>>

----------------------------------------------------------------------------
(* Bounds *)

MaxTime == 2          \* block timestamps range over 1..MaxTime
MaxAmount == 2        \* amounts range over 0..MaxAmount
MaxPayments == 2      \* successful recordPayment calls per behaviour
MaxClock == 2         \* facilitator clock ranges over 1..MaxClock

----------------------------------------------------------------------------
(* Accounts, roles and the other values calls are made with *)

ZeroAddress == "0x0000000000000000000000000000000000000000"
Deployer == "0xDeployer"      \* deploys the registry; the facilitator's wallet
Merchant == "0xAAA"
Payer == "0xBBB"
Other == "0xCCC"
OriginOwner == "0xDDD"

Accounts == {Deployer, Merchant, Payer, Other}
Addresses == Accounts \cup {ZeroAddress}

DEFAULT_ADMIN_ROLE == "DEFAULT_ADMIN_ROLE"
MERCHANT_ROLE == "MERCHANT_ROLE"
FACILITATOR_ROLE == "FACILITATOR_ROLE"

PremiumResource == "/api/premium"
Resources == {"", PremiumResource}
Amounts == 0..MaxAmount

NoPaymentId == <<>>
UnknownPaymentId == <<"0x999">>

----------------------------------------------------------------------------
(* X402PaymentRegistry *)

hasRole(role, account) == <<role, account>> \in roles

ZeroRequirement ==
    [scheme |-> "", network |-> "", maxAmountRequired |-> 0, resource |-> "",
     description |-> "", mimeType |-> "", payTo |-> ZeroAddress,
     maxTimeoutSeconds |-> 0, asset |-> ZeroAddress, isActive |-> FALSE,
     createdAt |-> 0, updatedAt |-> 0]

ZeroRecord ==
    [requirementId |-> <<>>, payer |-> ZeroAddress, originChain |-> "",
     originAddress |-> ZeroAddress, isUEA |-> FALSE, amount |-> 0,
     timestamp |-> 0, txHash |-> "", settled |-> FALSE]

\* paymentRecords[paymentId] of a Solidity mapping: the zero struct when never written
getPaymentRecord(paymentId) ==
    IF paymentId \in DOMAIN paymentRecords THEN paymentRecords[paymentId] ELSE ZeroRecord

getPaymentRequirement(merchant, resource) == paymentRequirements[merchant][resource]

getMerchantPayments(merchant) == merchantPayments[merchant]

\* A value of Solidity type bytes: its first 20 bytes as an address (zero-padded when
\* it is shorter) and whatever bytes follow them
Bytes(head, tail) == [head |-> head, tail |-> tail]

\* address(bytes20(b)): the first 20 bytes; later bytes are dropped
bytes20ToAddress(b) == b.head

SolanaPayer == "0x501"          \* a universal executor account owned by a Solana key
SolanaOwner == Bytes("0x5o1anaKeyBytes1to20", "bytes21to32")   \* a 32-byte public key

\* IUEAFactory.getOriginForUEA: the payer 0xBBB is a universal executor account of
\* 0xDDD on Ethereum Sepolia, 0x501 one of a Solana key; every other address is a
\* native account.
getOriginForUEA(addr) ==
    CASE addr = Payer ->
           [account |-> [chainNamespace |-> "eip155", chainId |-> "11155111",
                         owner |-> Bytes(OriginOwner, "")], isUEA |-> TRUE]
      [] addr = SolanaPayer ->
           [account |-> [chainNamespace |-> "solana",
                         chainId |-> "EtWTRABZaYq6iMfeYKouRu166VU2xqa1",
                         owner |-> SolanaOwner], isUEA |-> TRUE]
      [] OTHER ->
           [account |-> [chainNamespace |-> "", chainId |-> "",
                         owner |-> Bytes(ZeroAddress, "")], isUEA |-> FALSE]

\* a payment id that leaves the block timestamp out of the hash
PaymentIdOf_WithoutTimestamp(merchant, resource, payer, amount, timestamp, txHash) ==
    <<merchant, resource, payer, amount, 0, txHash>>

\* keccak256(abi.encodePacked(...)): injective on its argument tuple
PaymentIdOf(merchant, resource, payer, amount, timestamp, txHash) ==
    <<merchant, resource, payer, amount, timestamp, txHash>>

RequirementIdOf(merchant, resource) == <<merchant, resource>>

TotalPayments ==
    LET RECURSIVE Sum(_)
        Sum(S) == IF S = {} THEN 0
                  ELSE LET m == CHOOSE x \in S : TRUE
                       IN Len(merchantPayments[m]) + Sum(S \ {m})
    IN Sum(DOMAIN merchantPayments)

SettledCount(paymentId) ==
    IF paymentId \in DOMAIN settledEvents THEN settledEvents[paymentId] ELSE 0

NoEscrowId == <<>>

\* X402PaymentEscrow as its constructor leaves it: no escrow, nothing held
EscrowConstructor ==
    /\ escrows = <<>>
    /\ escrowFunds = <<>>
    /\ escrowCall = [op |-> "constructor", caller |-> Deployer, escrowId |-> NoEscrowId,
                     outcome |-> "ok", asset |-> ZeroAddress, to |-> ZeroAddress,
                     transferred |-> 0]

\* X402TokenManager as its constructor leaves it: no token
TokenManagerConstructor ==
    /\ tokens = <<>>
    /\ tokenList = <<>>
    /\ tokenCall = [op |-> "constructor", caller |-> Deployer, token |-> ZeroAddress,
                    outcome |-> "ok"]

\* constructor
Init ==
    /\ roles = {<<DEFAULT_ADMIN_ROLE, Deployer>>, <<FACILITATOR_ROLE, Deployer>>}
    /\ paymentRequirements = [m \in Accounts |-> [r \in Resources |-> ZeroRequirement]]
    /\ paymentRecords = <<>>
    /\ merchantPayments = [m \in Accounts |-> <<>>]
    /\ settledEvents = <<>>
    /\ blockTimestamp = 1
    /\ lastCall = [op |-> "constructor", caller |-> Deployer, outcome |-> "ok",
                   paymentId |-> NoPaymentId]
    /\ clock = 1
    /\ supportedTokens = {}
    /\ settle = <<>>
    /\ verifyCall = <<>>
    /\ statusCall = <<>>
    /\ middleware = <<>>
    /\ EscrowConstructor
    /\ TokenManagerConstructor

\* everything outside the payment registry
offChainVars == <<clock, supportedTokens, settle, verifyCall, statusCall, middleware,
                  escrowVars, tokenVars>>

\* registerMerchant without its onlyRole(DEFAULT_ADMIN_ROLE) modifier
registerMerchantOutcome_NoRoleCheck(caller) == "ok"

registerMerchantOutcome(caller) ==
    IF ~hasRole(DEFAULT_ADMIN_ROLE, caller) THEN "AccessControlUnauthorizedAccount"
    ELSE "ok"

registerMerchant(caller, merchant) ==
    LET outcome == registerMerchantOutcome(caller) IN
    /\ roles' = IF outcome = "ok" THEN roles \cup {<<MERCHANT_ROLE, merchant>>} ELSE roles
    /\ lastCall' = [op |-> "registerMerchant", caller |-> caller, outcome |-> outcome,
                    paymentId |-> NoPaymentId]
    /\ UNCHANGED <<paymentRequirements, paymentRecords, merchantPayments, settledEvents>>

\* createPaymentRequirement without require(maxAmountRequired > 0, ...)
createPaymentRequirementOutcome_NoAmountCheck(caller, resource, maxAmountRequired, payTo) ==
    IF ~hasRole(MERCHANT_ROLE, caller) THEN "AccessControlUnauthorizedAccount"
    ELSE IF resource = "" THEN "Resource cannot be empty"
    ELSE IF payTo = ZeroAddress THEN "Invalid payTo address"
    ELSE "ok"

\* createPaymentRequirement without its onlyRole(MERCHANT_ROLE) modifier
createPaymentRequirementOutcome_NoRoleCheck(caller, resource, maxAmountRequired, payTo) ==
    IF resource = "" THEN "Resource cannot be empty"
    ELSE IF ~(maxAmountRequired > 0) THEN "Amount must be greater than 0"
    ELSE IF payTo = ZeroAddress THEN "Invalid payTo address"
    ELSE "ok"

createPaymentRequirementOutcome(caller, resource, maxAmountRequired, payTo) ==
    IF ~hasRole(MERCHANT_ROLE, caller) THEN "AccessControlUnauthorizedAccount"
    ELSE IF resource = "" THEN "Resource cannot be empty"
    ELSE IF ~(maxAmountRequired > 0) THEN "Amount must be greater than 0"
    ELSE IF payTo = ZeroAddress THEN "Invalid payTo address"
    ELSE "ok"

createPaymentRequirement(caller, resource, scheme, network, maxAmountRequired, description, mimeType, payTo, maxTimeoutSeconds, asset) ==
    LET outcome == createPaymentRequirementOutcome(caller, resource, maxAmountRequired, payTo) IN
    /\ paymentRequirements' =
         IF outcome = "ok"
         THEN [paymentRequirements EXCEPT ![caller][resource] =
                 [scheme |-> scheme, network |-> network,
                  maxAmountRequired |-> maxAmountRequired, resource |-> resource,
                  description |-> description, mimeType |-> mimeType, payTo |-> payTo,
                  maxTimeoutSeconds |-> maxTimeoutSeconds, asset |-> asset,
                  isActive |-> TRUE, createdAt |-> blockTimestamp,
                  updatedAt |-> blockTimestamp]]
         ELSE paymentRequirements
    /\ lastCall' = [op |-> "createPaymentRequirement", caller |-> caller, outcome |-> outcome,
                    paymentId |-> NoPaymentId]
    /\ UNCHANGED <<roles, paymentRecords, merchantPayments, settledEvents>>

\* recordPayment requiring amount > requirement.maxAmountRequired
recordPaymentOutcome_StrictAmount(caller, merchant, resource, amount) ==
    LET requirement == paymentRequirements[merchant][resource] IN
    IF ~hasRole(FACILITATOR_ROLE, caller) THEN "AccessControlUnauthorizedAccount"
    ELSE IF ~requirement.isActive THEN "Payment requirement not active"
    ELSE IF ~(amount > requirement.maxAmountRequired) THEN "Insufficient payment amount"
    ELSE "ok"

\* recordPayment without its onlyRole(FACILITATOR_ROLE) modifier
recordPaymentOutcome_NoRoleCheck(caller, merchant, resource, amount) ==
    LET requirement == paymentRequirements[merchant][resource] IN
    IF ~requirement.isActive THEN "Payment requirement not active"
    ELSE IF ~(amount >= requirement.maxAmountRequired) THEN "Insufficient payment amount"
    ELSE "ok"

recordPaymentOutcome(caller, merchant, resource, amount) ==
    LET requirement == paymentRequirements[merchant][resource] IN
    IF ~hasRole(FACILITATOR_ROLE, caller) THEN "AccessControlUnauthorizedAccount"
    ELSE IF ~requirement.isActive THEN "Payment requirement not active"
    ELSE IF ~(amount >= requirement.maxAmountRequired) THEN "Insufficient payment amount"
    ELSE "ok"

NewPaymentRecord(merchant, resource, payer, amount, txHash) ==
    LET origin == getOriginForUEA(payer) IN
    [requirementId |-> RequirementIdOf(merchant, resource),
     payer |-> payer,
     originChain |-> IF origin.isUEA
                     THEN origin.account.chainNamespace \o ":" \o origin.account.chainId
                     ELSE "push-chain",
     originAddress |-> IF origin.isUEA THEN bytes20ToAddress(origin.account.owner)
                       ELSE payer,
     isUEA |-> origin.isUEA,
     amount |-> amount,
     timestamp |-> blockTimestamp,
     txHash |-> txHash,
     settled |-> FALSE]

\* paymentRecords[paymentId] = PaymentRecord({...}): an unconditional store
StoreRecord(records, paymentId, record) ==
    [id \in DOMAIN records \cup {paymentId} |->
        IF id = paymentId THEN record ELSE records[id]]

recordPayment(caller, merchant, resource, payer, amount, txHash) ==
    LET outcome == recordPaymentOutcome(caller, merchant, resource, amount)
        paymentId == PaymentIdOf(merchant, resource, payer, amount, blockTimestamp, txHash)
    IN
    /\ outcome = "ok" => TotalPayments < MaxPayments
    /\ IF outcome = "ok"
       THEN /\ paymentRecords' =
                 StoreRecord(paymentRecords, paymentId,
                             NewPaymentRecord(merchant, resource, payer, amount, txHash))
            /\ merchantPayments' =
                 [merchantPayments EXCEPT ![merchant] = Append(@, paymentId)]
       ELSE UNCHANGED <<paymentRecords, merchantPayments>>
    /\ lastCall' = [op |-> "recordPayment", caller |-> caller, outcome |-> outcome,
                    paymentId |-> IF outcome = "ok" THEN paymentId ELSE NoPaymentId]
    /\ UNCHANGED <<roles, paymentRequirements, settledEvents>>

\* markPaymentSettled without its require(record.timestamp > 0, "Payment not found")
markPaymentSettledOutcome_NoExistenceCheck(caller, paymentId) ==
    IF ~hasRole(FACILITATOR_ROLE, caller) THEN "AccessControlUnauthorizedAccount"
    ELSE IF getPaymentRecord(paymentId).settled THEN "Payment already settled"
    ELSE "ok"

markPaymentSettledOutcome(caller, paymentId) ==
    IF ~hasRole(FACILITATOR_ROLE, caller) THEN "AccessControlUnauthorizedAccount"
    ELSE IF ~(getPaymentRecord(paymentId).timestamp > 0) THEN "Payment not found"
    ELSE IF getPaymentRecord(paymentId).settled THEN "Payment already settled"
    ELSE "ok"

markPaymentSettled(caller, paymentId, settlementTxHash) ==
    LET outcome == markPaymentSettledOutcome(caller, paymentId) IN
    /\ IF outcome = "ok"
       THEN /\ paymentRecords' =      \* record.settled = true through the storage pointer
                 StoreRecord(paymentRecords, paymentId,
                             [getPaymentRecord(paymentId) EXCEPT !.settled = TRUE])
            /\ settledEvents' =
                 [id \in DOMAIN settledEvents \cup {paymentId} |->
                    IF id = paymentId THEN SettledCount(id) + 1 ELSE settledEvents[id]]
       ELSE UNCHANGED <<paymentRecords, settledEvents>>
    /\ lastCall' = [op |-> "markPaymentSettled", caller |-> caller, outcome |-> outcome,
                    paymentId |-> paymentId]
    /\ UNCHANGED <<roles, paymentRequirements, merchantPayments>>

----------------------------------------------------------------------------
(* Values of the facilitator API (TypeScript side) *)

\* An address as a JavaScript string: its 20 bytes and whether the hex digits are
\* written in lower case (otherwise in checksum case). The zero address has no
\* letters, so both spellings are one string.
AddrStr(hex, lower) == [hex |-> hex, lower |-> lower \/ hex = ZeroAddress]

toLowerCase(addr) == [addr EXCEPT !.lower = TRUE]

USDC == "0x1c7D4B196Cb0C7B01d743Fbc6116a902379C7238"
UnlistedToken == "0xEEE"
UnrelatedSigner == "0xFFF"    \* what recovery yields for a digest nobody signed

NoDomain == [undefined |-> TRUE]      \* requirements.extra?.domain absent
NoTxHash == "undefined"
MalformedSignature == [malformed |-> TRUE]   \* bytes that are no signature
GarbageHeader == [kind |-> "garbage"]

\* VerificationService.getChainId
getChainId(network) ==
    CASE network = "push-chain" -> 42101
      [] network = "ethereum-sepolia" -> 11155111
      [] network = "ethereum" -> 1
      [] network = "base-sepolia" -> 84532
      [] network = "base" -> 8453
      [] network = "arbitrum" -> 42161
      [] network = "optimism" -> 10
      [] network = "polygon" -> 137
      [] OTHER -> 42101

Eip712Domain(chainId, verifyingContract) ==
    [name |-> "x402 Payment", version |-> "1", chainId |-> chainId,
     verifyingContract |-> verifyingContract]

\* The Authorization struct as EIP-712 hashes it: addresses by their bytes
TypedAuthorization(authorization) ==
    [from |-> authorization.from.hex, to |-> authorization.to.hex,
     value |-> authorization.value, validAfter |-> authorization.validAfter,
     validBefore |-> authorization.validBefore, nonce |-> authorization.nonce]

\* signTypedData by the holder of signer's key
SignTypedData(signer, domain, authorization) ==
    [signer |-> signer, domain |-> domain, message |-> TypedAuthorization(authorization)]

\* ethers.verifyTypedData: the signer of exactly this digest, else an unrelated address
verifyTypedData(domain, authorization, signature) ==
    IF signature.domain = domain /\ signature.message = TypedAuthorization(authorization)
    THEN AddrStr(signature.signer, FALSE)
    ELSE AddrStr(UnrelatedSigner, FALSE)

\* verifySignature that accepts every signature
verifySignature_Always(paymentPayload, requirements) == TRUE

\* VerificationService.verifySignature
verifySignature(paymentPayload, requirements) ==
    LET signature == paymentPayload.payload.signature
        authorization == paymentPayload.payload.authorization
        domain == IF requirements.extra # NoDomain
                  THEN requirements.extra
                  ELSE Eip712Domain(getChainId(paymentPayload.network),
                                    requirements.asset)
    IN IF signature = MalformedSignature
       THEN FALSE                      \* verifyTypedData throws; caught
       ELSE toLowerCase(verifyTypedData(domain, authorization, signature))
              = toLowerCase(authorization.from)

\* VerificationService.decodePaymentHeader: base64, then JSON.parse
decodeThrows(paymentHeader) == paymentHeader.kind = "garbage"

decodePaymentHeader(paymentHeader) == paymentHeader.json

\* X-Payment header of a payload: base64(JSON.stringify(payload))
encodePaymentHeader(paymentPayload) == [kind |-> "base64json", json |-> paymentPayload]

Invalid(reason) == [threw |-> FALSE, isValid |-> FALSE, invalidReason |-> reason]

Thrown(code, message, statusCode) ==
    [threw |-> TRUE, code |-> code, message |-> message, statusCode |-> statusCode]

\* verifyPayment without its exemption of the native token
isNativeToken_Never(asset) == FALSE

isNativeToken(asset) == asset = ZeroAddress

\* the amount check with the boundary on the wrong side
insufficientAmount_AtMost(providedAmount, requiredAmount) == providedAmount <= requiredAmount

\* if (providedAmount < requiredAmount)
insufficientAmount(providedAmount, requiredAmount) == providedAmount < requiredAmount

\* the time checks with an exclusive boundary
notYetValid_AtBoundary(now, validAfter) == now <= validAfter

\* if (now < validAfter)
notYetValid(now, validAfter) == now < validAfter

expired_AtBoundary(now, validBefore) == now >= validBefore

\* if (now > validBefore)
expired(now, validBefore) == now > validBefore

\* ContractService.isSupportedToken
isSupportedToken(tokenAddress) == tokenAddress \in supportedTokens

\* verifyPayment with the amount check moved before the signature check
verifyPayment_AmountBeforeSignature(request, now) ==
    IF decodeThrows(request.paymentHeader)
    THEN Thrown("INTERNAL_ERROR", "Verification failed", 500)
    ELSE
    LET paymentPayload == decodePaymentHeader(request.paymentHeader)
        authorization == paymentPayload.payload.authorization
        requiredAmount == request.paymentRequirements.maxAmountRequired
        providedAmount == authorization.value
    IN
    IF paymentPayload.x402Version # request.x402Version
    THEN Invalid("Version mismatch")
    ELSE IF paymentPayload.scheme # "exact"
    THEN Invalid("Unsupported payment scheme")
    ELSE IF insufficientAmount(providedAmount, requiredAmount)
    THEN Invalid("Insufficient amount. Required: " \o ToString(requiredAmount)
                 \o ", Provided: " \o ToString(providedAmount))
    ELSE IF ~verifySignature(paymentPayload, request.paymentRequirements)
    THEN Invalid("Invalid signature")
    ELSE IF /\ ~isNativeToken(request.paymentRequirements.asset)
            /\ ~isSupportedToken(request.paymentRequirements.asset)
    THEN Invalid("Unsupported token")
    ELSE IF notYetValid(now, authorization.validAfter)
    THEN Invalid("Payment not yet valid")
    ELSE IF expired(now, authorization.validBefore)
    THEN Invalid("Payment expired")
    ELSE [threw |-> FALSE, isValid |-> TRUE, invalidReason |-> "null",
          estimatedGas |-> "300000", expiresAt |-> authorization.validBefore]

\* VerificationService.verifyPayment at facilitator time now
verifyPayment(request, now) ==
    IF decodeThrows(request.paymentHeader)
    THEN Thrown("INTERNAL_ERROR", "Verification failed", 500)
    ELSE
    LET paymentPayload == decodePaymentHeader(request.paymentHeader)
        authorization == paymentPayload.payload.authorization
        requiredAmount == request.paymentRequirements.maxAmountRequired
        providedAmount == authorization.value
    IN
    IF paymentPayload.x402Version # request.x402Version
    THEN Invalid("Version mismatch")
    ELSE IF paymentPayload.scheme # "exact"
    THEN Invalid("Unsupported payment scheme")
    ELSE IF ~verifySignature(paymentPayload, request.paymentRequirements)
    THEN Invalid("Invalid signature")
    ELSE IF insufficientAmount(providedAmount, requiredAmount)
    THEN Invalid("Insufficient amount. Required: " \o ToString(requiredAmount)
                 \o ", Provided: " \o ToString(providedAmount))
    ELSE IF /\ ~isNativeToken(request.paymentRequirements.asset)
            /\ ~isSupportedToken(request.paymentRequirements.asset)
    THEN Invalid("Unsupported token")
    ELSE IF notYetValid(now, authorization.validAfter)
    THEN Invalid("Payment not yet valid")
    ELSE IF expired(now, authorization.validBefore)
    THEN Invalid("Payment expired")
    ELSE [threw |-> FALSE, isValid |-> TRUE, invalidReason |-> "null",
          estimatedGas |-> "300000", expiresAt |-> authorization.validBefore]

\* The calls verifyPayment makes to contractService.isSupportedToken: one, for the
\* requirement's asset, when the checks before it pass and the asset is not native
isSupportedTokenCalls(request) ==
    IF decodeThrows(request.paymentHeader) THEN <<>>
    ELSE
    LET paymentPayload == decodePaymentHeader(request.paymentHeader) IN
    IF paymentPayload.x402Version # request.x402Version THEN <<>>
    ELSE IF paymentPayload.scheme # "exact" THEN <<>>
    ELSE IF ~verifySignature(paymentPayload, request.paymentRequirements) THEN <<>>
    ELSE IF insufficientAmount(paymentPayload.payload.authorization.value,
                               request.paymentRequirements.maxAmountRequired) THEN <<>>
    ELSE IF isNativeToken(request.paymentRequirements.asset) THEN <<>>
    ELSE <<request.paymentRequirements.asset>>

----------------------------------------------------------------------------
(* Spec: transactions sent to the registry by any account *)

RegisterMerchantCall ==
    \E caller \in {Deployer, Other}, merchant \in {Merchant} :
        /\ registerMerchant(caller, merchant)
        /\ UNCHANGED <<blockTimestamp, offChainVars>>

CreatePaymentRequirementCall ==
    \E caller \in {Merchant, Other}, resource \in Resources, maxAmountRequired \in Amounts,
       payTo \in {ZeroAddress, Merchant} :
        /\ createPaymentRequirement(caller, resource, "exact", "push-chain",
                                    maxAmountRequired, "Premium API access",
                                    "application/json", payTo, 60, ZeroAddress)
        /\ UNCHANGED <<blockTimestamp, offChainVars>>

RecordPaymentCall ==
    \E caller \in {Deployer, Merchant}, merchant \in {Merchant}, resource \in Resources,
       payer \in {Payer, Other, SolanaPayer}, amount \in Amounts, txHash \in {"0xtx1"} :
        /\ recordPayment(caller, merchant, resource, payer, amount, txHash)
        /\ UNCHANGED <<blockTimestamp, offChainVars>>

MarkPaymentSettledCall ==
    \E caller \in {Deployer, Merchant}, paymentId \in DOMAIN paymentRecords \cup {UnknownPaymentId},
       settlementTxHash \in {"0xsettle"} :
        /\ markPaymentSettled(caller, paymentId, settlementTxHash)
        /\ UNCHANGED <<blockTimestamp, offChainVars>>

\* the chain moves on to a block with a later timestamp
NextBlock ==
    /\ blockTimestamp < MaxTime
    /\ blockTimestamp' = blockTimestamp + 1
    /\ UNCHANGED <<registryVars, lastCall, offChainVars>>

Next ==
    \/ RegisterMerchantCall
    \/ CreatePaymentRequirementCall
    \/ RecordPaymentCall
    \/ MarkPaymentSettledCall
    \/ NextBlock

Spec == Init /\ [][Next]_vars

----------------------------------------------------------------------------
(* Requests the facilitator receives *)

Authorization(from, to, value, validAfter, validBefore, nonce) ==
    [from |-> from, to |-> to, value |-> value, validAfter |-> validAfter,
     validBefore |-> validBefore, nonce |-> nonce]

PaymentPayload(x402Version, scheme, network, signature, authorization, txHash) ==
    [x402Version |-> x402Version, scheme |-> scheme, network |-> network,
     payload |-> [signature |-> signature, authorization |-> authorization,
                  txHash |-> txHash]]

PaymentRequirements(maxAmountRequired, payTo, asset) ==
    [scheme |-> "exact", network |-> "push-chain",
     maxAmountRequired |-> maxAmountRequired, resource |-> PremiumResource,
     description |-> "Premium API access", mimeType |-> "application/json",
     payTo |-> payTo, maxTimeoutSeconds |-> 60, asset |-> asset, extra |-> NoDomain]

Request(x402Version, paymentHeader, requirements) ==
    [x402Version |-> x402Version, paymentHeader |-> paymentHeader,
     paymentRequirements |-> requirements]

\* The signatures a payload can carry: by the payer over this authorization for this
\* network and asset; by somebody else; by the payer over another authorization;
\* not a signature at all.
SignatureKinds == {"payer", "stranger", "otherMessage", "malformed"}

SignatureOf(kind, network, asset, authorization) ==
    LET domain == Eip712Domain(getChainId(network), asset) IN
    CASE kind = "payer" -> SignTypedData(authorization.from.hex, domain, authorization)
      [] kind = "stranger" -> SignTypedData(Other, domain, authorization)
      [] kind = "otherMessage" ->
            SignTypedData(authorization.from.hex, domain,
                          [authorization EXCEPT !.nonce = "0xnonce0"])
      [] OTHER -> MalformedSignature

\* the payer's authorization of one unit to the merchant, valid in [1, MaxClock]
PlainAuthorization ==
    Authorization(AddrStr(Payer, FALSE), AddrStr(Merchant, FALSE), 1, 1, MaxClock, "0xnonce1")

\* Payloads naming a network getChainId has no entry for, signed by the payer (or not)
\* for Push Chain or for Ethereum mainnet
UnknownNetworkRequests ==
    { Request(1,
              encodePaymentHeader(
                 PaymentPayload(1, "exact", "solana-devnet",
                                SignatureOf(kind, signedFor, ZeroAddress, PlainAuthorization),
                                PlainAuthorization, NoTxHash)),
              PaymentRequirements(1, AddrStr(Merchant, FALSE), ZeroAddress)) :
        kind \in SignatureKinds, signedFor \in {"push-chain", "ethereum"} }

\* a domain the merchant names in requirements.extra.domain
MerchantDomain ==
    [name |-> "Merchant Payments", version |-> "2", chainId |-> 1, verifyingContract |-> USDC]

\* Requirements that carry extra.domain, with the payer's signature under that domain
\* or under the default one
ExtraDomainRequests ==
    { Request(1,
              encodePaymentHeader(
                 PaymentPayload(1, "exact", "push-chain", signature, PlainAuthorization,
                                NoTxHash)),
              [PaymentRequirements(1, AddrStr(Merchant, FALSE), ZeroAddress)
                  EXCEPT !.extra = MerchantDomain]) :
        signature \in { SignTypedData(Payer, MerchantDomain, PlainAuthorization),
                        SignatureOf("payer", "push-chain", ZeroAddress, PlainAuthorization) } }

VerificationRequests ==
    { Request(1,
              encodePaymentHeader(
                 PaymentPayload(version, scheme, "push-chain",
                    SignatureOf(kind, "push-chain", asset,
                       Authorization(AddrStr(Payer, lower), AddrStr(to, FALSE), value,
                                     window[1], window[2], "0xnonce1")),
                    Authorization(AddrStr(Payer, lower), AddrStr(to, FALSE), value,
                                  window[1], window[2], "0xnonce1"),
                    NoTxHash)),
              PaymentRequirements(required, AddrStr(Merchant, FALSE), asset)) :
        version \in {1, 2}, scheme \in {"exact", "upto"}, kind \in SignatureKinds,
        lower \in BOOLEAN, to \in {Merchant, Other}, value \in Amounts,
        required \in 1..MaxAmount, asset \in {ZeroAddress, USDC, UnlistedToken},
        window \in {<<1, MaxClock>>, <<2, 2>>, <<1, 1>>} }
    \cup { Request(1, GarbageHeader,
                   PaymentRequirements(1, AddrStr(Merchant, FALSE), ZeroAddress)) }
    \cup UnknownNetworkRequests
    \cup ExtraDomainRequests

----------------------------------------------------------------------------
(* SpecVerify: the facilitator's POST /verify *)

\* X402TokenManager after the deployer's addSupportedToken(USDC, "USDC", 6, true)
TokenManagerWithUSDC ==
    /\ tokens = (USDC :> [tokenAddress |-> USDC, symbol |-> "USDC", decimals |-> 6,
                          isActive |-> TRUE, addedAt |-> 1, updatedAt |-> 1])
    /\ tokenList = <<USDC>>
    /\ tokenCall = [op |-> "addSupportedToken", caller |-> Deployer, token |-> USDC,
                    outcome |-> "ok"]

InitVerify ==
    /\ roles = {<<DEFAULT_ADMIN_ROLE, Deployer>>, <<FACILITATOR_ROLE, Deployer>>}
    /\ paymentRequirements = [m \in Accounts |-> [r \in Resources |-> ZeroRequirement]]
    /\ paymentRecords = <<>>
    /\ merchantPayments = [m \in Accounts |-> <<>>]
    /\ settledEvents = <<>>
    /\ blockTimestamp = 1
    /\ lastCall = [op |-> "constructor", caller |-> Deployer, outcome |-> "ok",
                   paymentId |-> NoPaymentId]
    /\ clock = 1
    /\ supportedTokens = {USDC}
    /\ settle = <<>>
    /\ verifyCall = <<>>
    /\ statusCall = <<>>
    /\ middleware = <<>>
    /\ EscrowConstructor
    /\ TokenManagerWithUSDC

\* a verifyPayment that remembers the asset it looked up as supported
VerifyPaymentCall_CachingTokens ==
    \E request \in VerificationRequests :
        /\ verifyCall = <<>>
        /\ verifyCall' = [request |-> request, now |-> clock,
                          result |-> verifyPayment(request, clock),
                          tokenCalls |-> isSupportedTokenCalls(request),
                          again |-> <<>>]
        /\ supportedTokens' = supportedTokens \cup {request.paymentRequirements.asset}
        /\ UNCHANGED <<registryVars, blockTimestamp, lastCall, clock, settle,
                       statusCall, middleware, escrowVars, tokenVars>>

\* POST /verify arrives and verifyPayment computes the response
VerifyPaymentCall ==
    \E request \in VerificationRequests :
        /\ verifyCall = <<>>
        /\ verifyCall' = [request |-> request, now |-> clock,
                          result |-> verifyPayment(request, clock),
                          tokenCalls |-> isSupportedTokenCalls(request),
                          again |-> <<>>]
        /\ UNCHANGED <<registryVars, blockTimestamp, lastCall, clock, supportedTokens, settle,
                   statusCall, middleware, escrowVars, tokenVars>>

\* the same request is posted a second time
VerifyPaymentRepeat ==
    /\ verifyCall # <<>>
    /\ verifyCall.again = <<>>
    /\ verifyCall' = [verifyCall EXCEPT !.again =
                        [now |-> clock, result |-> verifyPayment(verifyCall.request, clock),
                         tokens |-> supportedTokens]]
    /\ UNCHANGED <<registryVars, blockTimestamp, lastCall, clock, supportedTokens, settle,
                   statusCall, middleware, escrowVars, tokenVars>>

\* the response is sent; the service keeps nothing of the call
VerifyPaymentRespond ==
    /\ verifyCall # <<>>
    /\ verifyCall' = <<>>
    /\ UNCHANGED <<registryVars, blockTimestamp, lastCall, clock, supportedTokens, settle,
                   statusCall, middleware, escrowVars, tokenVars>>

\* a second passes on the facilitator's clock
Tick ==
    /\ clock < MaxClock
    /\ clock' = clock + 1
    /\ UNCHANGED <<registryVars, blockTimestamp, lastCall, supportedTokens, settle, verifyCall,
                   statusCall, middleware, escrowVars, tokenVars>>

NextVerify ==
    \/ VerifyPaymentCall
    \/ VerifyPaymentRepeat
    \/ VerifyPaymentRespond
    \/ Tick

SpecVerify == InitVerify /\ [][NextVerify]_vars

----------------------------------------------------------------------------
(* SettlementService *)

AppError(code, message, statusCode) ==
    [code |-> code, message |-> message, statusCode |-> statusCode]

NoError == [code |-> "", message |-> "", statusCode |-> 0]

\* an Error that is no AppError (thrown by ethers): it carries no code
PlainError(message) == [code |-> "", message |-> message, statusCode |-> 0]

\* Transactions on the chain the payload names, as its RPC node reports them:
\* receipt.status, tx.from, tx.to, tx.value; found = FALSE when the node answers null.
SourceChainTx(txHash) ==
    LET Tx(from, to, value, status) ==
            [found |-> TRUE, from |-> AddrStr(from, FALSE), to |-> AddrStr(to, FALSE),
             value |-> value, status |-> status]
    IN CASE txHash = "0xtx1" -> Tx(Payer, Merchant, 1, 1)
         [] txHash = "0xtx2" -> Tx(Payer, Merchant, 1, 1)
         [] txHash = "0xtxToOther" -> Tx(Payer, Other, 1, 1)
         [] txHash = "0xtxFromOther" -> Tx(Other, Merchant, 1, 1)
         [] txHash = "0xtxLowValue" -> Tx(Payer, Merchant, 0, 1)
         [] txHash = "0xtxReverted" -> Tx(Payer, Merchant, 1, 0)
         [] OTHER -> [found |-> FALSE, from |-> AddrStr(ZeroAddress, FALSE),
                      to |-> AddrStr(ZeroAddress, FALSE), value |-> 0, status |-> 0]

\* How one RPC read ends: an answer, the 10 s timer firing first, or a transport error
RpcOutcomes == {"answer", "timeout", "error"}

RpcNetworks == {"push-chain", "ethereum-sepolia", "base-sepolia"}

Proceed(path) == [threw |-> FALSE, path |-> path, error |-> NoError]

Throw(error) == [threw |-> TRUE, path |-> "thrown", error |-> error]

\* verifyTransaction without its comparison of tx.to with the expected recipient
verifyTransaction_NoRecipientCheck(txHash, network, expectedFrom, expectedTo, expectedAmount, receiptRpc, txRpc) ==
    LET tx == SourceChainTx(txHash) IN
    IF network \notin RpcNetworks
    THEN Throw(AppError("SETTLEMENT_FAILED", "Unsupported network: " \o network, 400))
    ELSE IF receiptRpc = "timeout"
    THEN Proceed("rpcTimeout")
    ELSE IF receiptRpc = "error"
    THEN Throw(PlainError("could not detect network"))
    ELSE IF ~tx.found
    THEN Proceed("receiptNotFound")
    ELSE IF txRpc = "timeout"
    THEN Proceed("rpcTimeout")
    ELSE IF txRpc = "error"
    THEN Throw(PlainError("could not detect network"))
    ELSE IF toLowerCase(tx.from) # toLowerCase(expectedFrom)
    THEN Throw(AppError("SETTLEMENT_FAILED", "Transaction from address mismatch", 400))
    ELSE IF tx.value < expectedAmount
    THEN Throw(AppError("SETTLEMENT_FAILED", "Transaction amount insufficient", 400))
    ELSE IF tx.status # 1
    THEN Throw(AppError("SETTLEMENT_FAILED", "Transaction failed on source chain", 400))
    ELSE Proceed("verified")

\* SettlementService.verifyTransaction; receiptRpc and txRpc are how the two reads end.
\* The mismatch messages are kept up to their ". Expected: ..., Got: ..." detail.
verifyTransaction(txHash, network, expectedFrom, expectedTo, expectedAmount, receiptRpc, txRpc) ==
    LET tx == SourceChainTx(txHash) IN
    IF network \notin RpcNetworks
    THEN Throw(AppError("SETTLEMENT_FAILED", "Unsupported network: " \o network, 400))
    ELSE IF receiptRpc = "timeout"
    THEN Proceed("rpcTimeout")
    ELSE IF receiptRpc = "error"
    THEN Throw(PlainError("could not detect network"))
    ELSE IF ~tx.found
    THEN Proceed("receiptNotFound")
    ELSE IF txRpc = "timeout"
    THEN Proceed("rpcTimeout")
    ELSE IF txRpc = "error"
    THEN Throw(PlainError("could not detect network"))
    ELSE IF toLowerCase(tx.from) # toLowerCase(expectedFrom)
    THEN Throw(AppError("SETTLEMENT_FAILED", "Transaction from address mismatch", 400))
    ELSE IF toLowerCase(tx.to) # toLowerCase(expectedTo)
    THEN Throw(AppError("SETTLEMENT_FAILED", "Transaction to address mismatch", 400))
    ELSE IF tx.value < expectedAmount
    THEN Throw(AppError("SETTLEMENT_FAILED", "Transaction amount insufficient", 400))
    ELSE IF tx.status # 1
    THEN Throw(AppError("SETTLEMENT_FAILED", "Transaction failed on source chain", 400))
    ELSE Proceed("verified")

\* The reads verifyTransaction makes, with how each ended: getTransactionReceipt,
\* then getTransaction when the receipt came and was not null
RpcReads(txHash, network, receiptRpc, txRpc) ==
    IF network \notin RpcNetworks THEN <<>>
    ELSE IF receiptRpc = "answer" /\ SourceChainTx(txHash).found
    THEN <<receiptRpc, txRpc>>
    ELSE <<receiptRpc>>

\* the catch block of settlePayment: an AppError passes, anything else is wrapped
settleCatch(error) ==
    IF error.code # "" THEN error
    ELSE AppError("SETTLEMENT_FAILED", "Settlement failed", 500)

\* settlePayment without its txHash check
txHashMissing_Never(txHash) == FALSE

\* if (!txHash): undefined and the empty string are falsy
txHashMissing(txHash) == txHash \in {NoTxHash, ""}

\* settlePayment up to the first registry-independent decision: the verdict of
\* verifyPayment, the decoded payload, the txHash check
settleVerification(request, now) ==
    LET verification == verifyPayment(request, now) IN
    IF verification.threw
    THEN Throw(AppError(verification.code, verification.message, verification.statusCode))
    ELSE IF ~verification.isValid
    THEN Throw(AppError("INVALID_SIGNATURE",
                        "Payment verification failed: " \o verification.invalidReason, 400))
    ELSE IF txHashMissing(decodePaymentHeader(request.paymentHeader).payload.txHash)
    THEN Throw(AppError("SETTLEMENT_FAILED", "Transaction hash not provided by agent", 400))
    ELSE Proceed("verifyTransaction")

Slots == {"s1", "s2"}     \* the POST /settle requests of a behaviour

IdleSettlement ==
    [pc |-> "idle", request |-> <<>>, verification |-> <<>>, reads |-> <<>>,
     proof |-> "none",
     calls |-> <<>>, paymentId |-> NoPaymentId, response |-> <<>>, error |-> NoError]

Failed(call, error) == [call EXCEPT !.pc = "failed", !.error = settleCatch(error)]

\* the locals settlePayment passes to verifyTransaction and recordPayment
SettleArgs(call) ==
    LET paymentPayload == decodePaymentHeader(call.request.paymentHeader) IN
    [merchant |-> call.request.paymentRequirements.payTo,
     resource |-> call.request.paymentRequirements.resource,
     payer |-> paymentPayload.payload.authorization.from,
     amount |-> paymentPayload.payload.authorization.value,
     network |-> paymentPayload.network,
     txHash |-> paymentPayload.payload.txHash]


\* A payload the payer signed for the registered requirement, as the agent sends it
\* after paying: version 1, scheme exact, window [1, MaxClock]
SettlementPayload(x402Version, scheme, network, kind, lower, to, value, window, txHash) ==
    LET authorization == Authorization(AddrStr(Payer, lower), AddrStr(to, FALSE), value,
                                       window[1], window[2], "0xnonce1")
    IN PaymentPayload(x402Version, scheme, network,
                      SignatureOf(kind, network, ZeroAddress, authorization),
                      authorization, txHash)

TxProofs == {"0xtx1", "0xtx2", "0xtxToOther", "0xtxFromOther", "0xtxLowValue",
             "0xtxReverted", "0xtxUnknown", NoTxHash, ""}

RegisteredRequirements == PaymentRequirements(1, AddrStr(Merchant, FALSE), ZeroAddress)

SettlementRequests ==
    { Request(1, encodePaymentHeader(payload), RegisteredRequirements) :
        payload \in
            { SettlementPayload(1, "exact", "push-chain", "payer", FALSE, Merchant, 1,
                                <<1, MaxClock>>, txHash) : txHash \in TxProofs }
            \cup
            { SettlementPayload(2, "exact", "push-chain", "payer", FALSE, Merchant, 1,
                                <<1, MaxClock>>, "0xtx1"),
              SettlementPayload(1, "upto", "push-chain", "payer", FALSE, Merchant, 1,
                                <<1, MaxClock>>, "0xtx1"),
              SettlementPayload(1, "exact", "push-chain", "stranger", FALSE, Merchant, 1,
                                <<1, MaxClock>>, "0xtx1"),
              SettlementPayload(1, "exact", "push-chain", "payer", TRUE, Merchant, 1,
                                <<1, MaxClock>>, "0xtx1"),
              SettlementPayload(1, "exact", "push-chain", "payer", FALSE, Other, 1,
                                <<1, MaxClock>>, "0xtxToOther"),
              SettlementPayload(1, "exact", "push-chain", "payer", FALSE, Merchant, 0,
                                <<1, MaxClock>>, "0xtx1"),
              SettlementPayload(1, "exact", "push-chain", "payer", FALSE, Merchant, 1,
                                <<1, 1>>, "0xtx1"),
              SettlementPayload(1, "exact", "push-chain", "payer", FALSE, Merchant, 1,
                                <<2, MaxClock>>, "0xtx1"),
              SettlementPayload(1, "exact", "solana-devnet", "payer", FALSE, Merchant, 1,
                                <<1, MaxClock>>, "0xtx1") } }
    \cup { Request(1, encodePaymentHeader(
                        SettlementPayload(1, "exact", "push-chain", "payer", FALSE,
                                          Merchant, 1, <<1, MaxClock>>, "0xtx1")),
                   PaymentRequirements(1, AddrStr(Merchant, FALSE), UnlistedToken)),
           Request(1, GarbageHeader, RegisteredRequirements) }

\* What a second submission carries: the payer's valid payload again, with the same
\* proof, with another transfer to the merchant, or with a hash the node does not know
ResubmittedRequests ==
    { Request(1, encodePaymentHeader(
                    SettlementPayload(1, "exact", "push-chain", "payer", FALSE, Merchant, 1,
                                      <<1, MaxClock>>, txHash)),
              RegisteredRequirements) : txHash \in {"0xtx1", "0xtx2", "0xtxUnknown"} }

RequestsOf(s) == IF s = "s1" THEN SettlementRequests ELSE ResubmittedRequests

----------------------------------------------------------------------------
(* SpecSettle: POST /settle requests served concurrently *)

\* The registry deployed, the merchant registered, its requirement for the premium
\* resource created in the first block
InitSettle ==
    /\ roles = {<<DEFAULT_ADMIN_ROLE, Deployer>>, <<FACILITATOR_ROLE, Deployer>>,
                <<MERCHANT_ROLE, Merchant>>}
    /\ paymentRequirements =
         [m \in Accounts |-> [r \in Resources |->
            IF m = Merchant /\ r = PremiumResource
            THEN [scheme |-> "exact", network |-> "push-chain", maxAmountRequired |-> 1,
                  resource |-> PremiumResource, description |-> "Premium API access",
                  mimeType |-> "application/json", payTo |-> Merchant,
                  maxTimeoutSeconds |-> 60, asset |-> ZeroAddress, isActive |-> TRUE,
                  createdAt |-> 1, updatedAt |-> 1]
            ELSE ZeroRequirement]]
    /\ paymentRecords = <<>>
    /\ merchantPayments = [m \in Accounts |-> <<>>]
    /\ settledEvents = <<>>
    /\ blockTimestamp = 1
    /\ lastCall = [op |-> "createPaymentRequirement", caller |-> Merchant,
                   outcome |-> "ok", paymentId |-> NoPaymentId]
    /\ clock = 1
    /\ supportedTokens = {USDC}
    /\ settle = [s \in Slots |-> IdleSettlement]
    /\ verifyCall = <<>>
    /\ statusCall = <<>>
    /\ middleware = <<>>
    /\ EscrowConstructor
    /\ TokenManagerWithUSDC

\* settlePayment is entered: verifyPayment, decode, the txHash check
SettleVerify(s) ==
    \E request \in RequestsOf(s) :
        LET step == settleVerification(request, clock)
            call == [IdleSettlement EXCEPT !.request = request,
                                           !.verification = verifyPayment(request, clock)]
        IN
        /\ settle[s].pc = "idle"
        /\ settle' = [settle EXCEPT ![s] =
                        IF step.threw THEN Failed(call, step.error)
                        ELSE [call EXCEPT !.pc = "verifyTransaction"]]
        /\ UNCHANGED <<registryVars, blockTimestamp, lastCall, clock, supportedTokens,
                       verifyCall, statusCall, middleware, escrowVars, tokenVars>>

\* await this.verifyTransaction(txHash, network, payer, merchant, amount)
SettleVerifyTransaction(s) ==
    \E receiptRpc \in RpcOutcomes, txRpc \in RpcOutcomes :
        LET call == settle[s]
            args == SettleArgs(call)
            step == verifyTransaction(args.txHash, args.network, args.payer,
                                      args.merchant, args.amount, receiptRpc, txRpc)
            read == [call EXCEPT !.reads =
                        RpcReads(args.txHash, args.network, receiptRpc, txRpc)]
        IN
        /\ call.pc = "verifyTransaction"
        /\ settle' = [settle EXCEPT ![s] =
                        IF step.threw THEN Failed(read, step.error)
                        ELSE [read EXCEPT !.pc = "recordPayment", !.proof = step.path]]
        /\ UNCHANGED <<registryVars, blockTimestamp, lastCall, clock, supportedTokens,
                       verifyCall, statusCall, middleware, escrowVars, tokenVars>>

\* await this.contractService.recordPayment(merchant, resource, payer, amount, txHash):
\* the facilitator wallet's transaction is mined, or the node cannot be reached
SettleRecordPayment(s) ==
    \E node \in {"mined", "unreachable"} :
        LET call == settle[s]
            args == SettleArgs(call)
        IN
        /\ call.pc = "recordPayment"
        /\ IF node = "unreachable"
           THEN /\ settle' = [settle EXCEPT ![s] =
                                Failed(call, PlainError("could not detect network"))]
                /\ UNCHANGED <<registryVars, lastCall>>
           ELSE /\ recordPayment(Deployer, args.merchant.hex, args.resource,
                                 args.payer.hex, args.amount, args.txHash)
                /\ settle' = [settle EXCEPT ![s] =
                                IF lastCall'.outcome = "ok"
                                THEN [call EXCEPT !.pc = "markPaymentSettled",
                                                  !.calls = Append(@, "recordPayment"),
                                                  !.paymentId = lastCall'.paymentId]
                                ELSE Failed([call EXCEPT !.calls = Append(@, "recordPayment")],
                                            PlainError(lastCall'.outcome))]
        /\ UNCHANGED <<blockTimestamp, clock, supportedTokens, verifyCall, statusCall, middleware, escrowVars, tokenVars>>

\* await this.contractService.markPaymentSettled(paymentId, txHash)
SettleMarkPaymentSettled(s) ==
    \E node \in {"mined", "unreachable"} :
        LET call == settle[s]
            args == SettleArgs(call)
        IN
        /\ call.pc = "markPaymentSettled"
        /\ IF node = "unreachable"
           THEN /\ settle' = [settle EXCEPT ![s] =
                                Failed(call, PlainError("could not detect network"))]
                /\ UNCHANGED <<registryVars, lastCall>>
           ELSE /\ markPaymentSettled(Deployer, call.paymentId, args.txHash)
                /\ settle' = [settle EXCEPT ![s] =
                                IF lastCall'.outcome = "ok"
                                THEN [call EXCEPT
                                        !.pc = "done",
                                        !.calls = Append(@, "markPaymentSettled"),
                                        !.response = [success |-> TRUE, error |-> "null",
                                                      networkId |-> args.network,
                                                      registryTxHash |-> call.paymentId]]
                                ELSE Failed([call EXCEPT
                                               !.calls = Append(@, "markPaymentSettled")],
                                            PlainError(lastCall'.outcome))]
        /\ UNCHANGED <<blockTimestamp, clock, supportedTokens, verifyCall, statusCall, middleware, escrowVars, tokenVars>>

SettleTick ==
    /\ clock < MaxClock
    /\ clock' = clock + 1
    /\ UNCHANGED <<registryVars, blockTimestamp, lastCall, supportedTokens, settle, verifyCall,
                   statusCall, middleware, escrowVars, tokenVars>>

SettleNextBlock ==
    /\ blockTimestamp < MaxTime
    /\ blockTimestamp' = blockTimestamp + 1
    /\ UNCHANGED <<registryVars, lastCall, offChainVars>>

NextSettle ==
    \/ \E s \in Slots : SettleVerify(s)
    \/ \E s \in Slots : SettleVerifyTransaction(s)
    \/ \E s \in Slots : SettleRecordPayment(s)
    \/ \E s \in Slots : SettleMarkPaymentSettled(s)
    \/ SettleTick
    \/ SettleNextBlock

SpecSettle == InitSettle /\ [][NextSettle]_vars

----------------------------------------------------------------------------
(* Properties *)

Started(s) == settle[s].pc # "idle"

\* the settlement request in slot s recorded a payment in the registry
Recorded(s) == settle[s].paymentId # NoPaymentId

InFlight(s) == settle[s].pc \in {"verifyTransaction", "recordPayment", "markPaymentSettled"}

AuthorizationOf(request) == decodePaymentHeader(request.paymentHeader).payload.authorization

\* the proof reference of a recorded payment: merchant, resource, payer, amount, txHash
ProofOf(paymentId) ==
    <<paymentId[1], paymentId[2], paymentId[3], paymentId[4], paymentId[6]>>

\* the proof reference a started settlement request carries
ProofRef(call) ==
    IF decodeThrows(call.request.paymentHeader) THEN <<>>
    ELSE LET args == SettleArgs(call)
         IN <<args.merchant.hex, args.resource, args.payer.hex, args.amount, args.txHash>>

SameProof(s, t) ==
    /\ Started(s) /\ Started(t)
    /\ ProofRef(settle[s]) # <<>>
    /\ ProofRef(settle[s]) = ProofRef(settle[t])

\* C1: once the record of a payment id has settled = true, it has settled = true in
\* every later state, whatever registry calls follow (also within one block).
C1_SettledIsAbsorbing ==
    [][\A id \in DOMAIN paymentRecords :
          paymentRecords[id].settled =>
             id \in DOMAIN paymentRecords' /\ paymentRecords'[id].settled]_vars

\* C2: the registry holds at most one record per transfer proof: no two entries of a
\* merchant's payment list carry the same (merchant, resource, payer, amount, txHash),
\* and a second settlePayment with the proof of a completed one does not complete.
C2_AtMostOnePerProof ==
    /\ \A m \in Accounts : \A i, j \in DOMAIN merchantPayments[m] :
          i # j => ProofOf(merchantPayments[m][i]) # ProofOf(merchantPayments[m][j])
    /\ \A s, t \in Slots :
          (s # t /\ SameProof(s, t) /\ settle[s].pc = "done") => settle[t].pc # "done"

\* C3: of two settlePayment requests for the same payment that are in flight together,
\* at most one has had its recordPayment succeed.
C3_ConcurrentDuplicateLoses ==
    \A s, t \in Slots :
        (s # t /\ SameProof(s, t) /\ InFlight(s) /\ InFlight(t))
        => ~(Recorded(s) /\ Recorded(t))

NonceKey(request) ==
    <<AuthorizationOf(request).from.hex, request.paymentRequirements.asset,
      AuthorizationOf(request).nonce>>

\* C4: one signed authorization, identified by (from, asset, nonce), never has two
\* settlements accepted.
C4_NonceConsumedOnce ==
    \A s, t \in Slots :
        (s # t /\ Recorded(s) /\ Recorded(t))
        => NonceKey(settle[s].request) # NonceKey(settle[t].request)

\* C5: verifyPayment answers isValid = false whenever authorization.to differs from
\* paymentRequirements.payTo.
C5_RecipientMismatchRejected ==
    (verifyCall # <<>> /\ ~decodeThrows(verifyCall.request.paymentHeader))
    => (AuthorizationOf(verifyCall.request).to.hex
            # verifyCall.request.paymentRequirements.payTo.hex
        => ~verifyCall.result.isValid)

\* the transaction behind the proof of call, as the source chain holds it, matches
TransferMatches(call) ==
    LET args == SettleArgs(call)
        tx == SourceChainTx(args.txHash)
    IN /\ tx.found
       /\ tx.status = 1
       /\ tx.from.hex = args.payer.hex
       /\ tx.to.hex = args.merchant.hex
       /\ tx.value >= args.amount

\* C6: a settlePayment that created a record had the transaction positively confirmed:
\* both reads answered and the transaction succeeded with matching from, to and value.
C6_RecordOnlyAfterConfirmation ==
    \A s \in Slots :
        Recorded(s) =>
            /\ settle[s].reads = <<"answer", "answer">>
            /\ settle[s].proof = "verified"
            /\ TransferMatches(settle[s])

TransferMismatchMessages ==
    {"Transaction from address mismatch", "Transaction to address mismatch",
     "Transaction amount insufficient", "Transaction failed on source chain"}

\* the node reported the transaction of call, and it is not the transfer expected
ConfirmedMismatch(call) ==
    /\ call.reads = <<"answer", "answer">>
    /\ SourceChainTx(SettleArgs(call).txHash).found
    /\ ~TransferMatches(call)

\* C7: when the node reports the transaction behind the proof and its recipient,
\* sender, value or status is not the expected one, settlePayment fails with a
\* transfer-mismatch error and has made no registry call: no record is created.
C7_TransferMismatchFails ==
    \A s \in Slots :
        (Started(s) /\ ConfirmedMismatch(settle[s])) =>
            /\ settle[s].pc = "failed"
            /\ settle[s].error.code = "SETTLEMENT_FAILED"
            /\ settle[s].error.message \in TransferMismatchMessages
            /\ settle[s].calls = <<>>
            /\ ~Recorded(s)

C7_Witness ==
    \E s \in Slots :
        /\ Started(s)
        /\ ConfirmedMismatch(settle[s])
        /\ SourceChainTx(SettleArgs(settle[s]).txHash).to.hex = Other
        /\ settle[s].request.paymentRequirements.payTo.hex = Merchant
        /\ settle[s].pc = "failed"
        /\ settle[s].error.message = "Transaction to address mismatch"

Verified(s) == ~settle[s].verification.threw /\ settle[s].verification.isValid

\* C8: a settlePayment whose payload passes verification and carries no txHash fails
\* with the missing-proof error and makes no recordPayment or markPaymentSettled call.
C8_MissingProofFails ==
    \A s \in Slots :
        (Started(s) /\ Verified(s) /\ SettleArgs(settle[s]).txHash \in {NoTxHash, ""}) =>
            /\ settle[s].pc = "failed"
            /\ settle[s].error =
                 AppError("SETTLEMENT_FAILED", "Transaction hash not provided by agent", 400)
            /\ settle[s].calls = <<>>
            /\ ~Recorded(s)

C8_Witness ==
    \E s \in Slots :
        /\ Started(s)
        /\ Verified(s)
        /\ SettleArgs(settle[s]).txHash = NoTxHash
        /\ settle[s].pc = "failed"

\* C9: when verifyPayment answers isValid = false, settlePayment fails as a settlement
\* failure (SETTLEMENT_FAILED) whose message carries the reason, without a registry call.
C9_InvalidPaymentIsSettlementFailure ==
    \A s \in Slots :
        (Started(s) /\ ~settle[s].verification.threw /\ ~settle[s].verification.isValid) =>
            /\ settle[s].pc = "failed"
            /\ settle[s].error.code = "SETTLEMENT_FAILED"
            /\ settle[s].error.message =
                 "Payment verification failed: " \o settle[s].verification.invalidReason
            /\ settle[s].calls = <<>>

\* a markPaymentSettled transaction by a facilitator is mined in this step
MarkPaymentSettledStep ==
    /\ lastCall' # lastCall
    /\ lastCall'.op = "markPaymentSettled"
    /\ hasRole(FACILITATOR_ROLE, lastCall'.caller)

\* C10: markPaymentSettled on an id without a record fails with 'Payment not found', on
\* a settled id with 'Payment already settled', both leaving the registry unchanged,
\* and it never succeeds twice for the same id.
C10_MarkPaymentSettledErrors ==
    [][MarkPaymentSettledStep =>
         LET id == lastCall'.paymentId IN
         /\ getPaymentRecord(id).timestamp = 0 =>
              lastCall'.outcome = "Payment not found" /\ UNCHANGED registryVars
         /\ getPaymentRecord(id).settled =>
              lastCall'.outcome = "Payment already settled" /\ UNCHANGED registryVars
         /\ lastCall'.outcome = "ok" => SettledCount(id) = 0]_vars

\* the payment ids for which a recordPayment has succeeded
RecordedIds == UNION { { merchantPayments[m][i] : i \in DOMAIN merchantPayments[m] } : m \in Accounts }

\* a recordPayment transaction succeeds in this step
RecordPaymentStep ==
    /\ lastCall' # lastCall
    /\ lastCall'.op = "recordPayment"
    /\ lastCall'.outcome = "ok"

\* C11: a record follows Unrecorded -> Recorded(unsettled) -> Settled: recordPayment
\* leaves the record of its id with settled = false, a record that appears has
\* settled = false, and a settled record or a PaymentSettled event exists only for an id
\* that a successful recordPayment recorded before.
C11_RecordLifecycle ==
    /\ [](\A id \in DOMAIN paymentRecords :
             paymentRecords[id].settled => id \in RecordedIds /\ SettledCount(id) > 0)
    /\ [](\A id \in DOMAIN settledEvents :
             settledEvents[id] > 0 => id \in RecordedIds /\ id \in DOMAIN paymentRecords)
    /\ [][/\ RecordPaymentStep =>
               (/\ lastCall'.paymentId \in DOMAIN paymentRecords'
                /\ ~paymentRecords'[lastCall'.paymentId].settled)
           /\ (\A new \in DOMAIN paymentRecords' \ DOMAIN paymentRecords :
                  (RecordPaymentStep /\ new = lastCall'.paymentId
                   /\ ~paymentRecords'[new].settled))
           /\ (\A id \in DOMAIN paymentRecords' :
                  (paymentRecords'[id].settled /\ ~getPaymentRecord(id).settled) =>
                      (/\ id \in RecordedIds
                       /\ lastCall'.op = "markPaymentSettled"
                       /\ lastCall'.paymentId = id))]_vars

C11_Witness ==
    \E id \in DOMAIN paymentRecords :
        /\ paymentRecords[id].settled
        /\ id \in RecordedIds
        /\ SettledCount(id) = 1
        /\ lastCall.op = "markPaymentSettled"
        /\ lastCall.outcome = "ok"

----------------------------------------------------------------------------
(* Properties of verifyPayment *)

\* a verifyPayment call whose header decoded is on record
CallMade == verifyCall # <<>> /\ ~decodeThrows(verifyCall.request.paymentHeader)

PayloadOf(request) == decodePaymentHeader(request.paymentHeader)

VersionFails(request) == PayloadOf(request).x402Version # request.x402Version

SchemeFails(request) == PayloadOf(request).scheme # "exact"

\* the network identifiers the facilitator knows a chain id for
SupportedNetworks ==
    {"push-chain", "ethereum-sepolia", "ethereum", "base-sepolia", "base", "arbitrum",
     "optimism", "polygon"}

\* the signature is the one authorization.from made over the authorization
SignedByFrom(request) ==
    LET signature == PayloadOf(request).payload.signature
        authorization == PayloadOf(request).payload.authorization
    IN /\ signature # MalformedSignature
       /\ signature.signer = authorization.from.hex
       /\ signature.message = TypedAuthorization(authorization)

\* ... and under the domain the requirement asks for
ValidlySigned(request) ==
    /\ SignedByFrom(request)
    /\ PayloadOf(request).payload.signature.domain =
         IF request.paymentRequirements.extra # NoDomain
         THEN request.paymentRequirements.extra
         ELSE Eip712Domain(getChainId(PayloadOf(request).network),
                           request.paymentRequirements.asset)

InsufficientAmountReason(request) ==
    "Insufficient amount. Required: "
        \o ToString(request.paymentRequirements.maxAmountRequired)
        \o ", Provided: " \o ToString(PayloadOf(request).payload.authorization.value)

\* The checks of the verification pipeline in the order the spec lists them, each with
\* whether the request fails it at time now and the reason reported for it
PipelineChecks(request, now) ==
    LET authorization == PayloadOf(request).payload.authorization
        requirements == request.paymentRequirements
    IN << <<VersionFails(request), "Version mismatch">>,
          <<SchemeFails(request), "Unsupported payment scheme">>,
          <<~verifySignature(PayloadOf(request), requirements), "Invalid signature">>,
          <<authorization.value < requirements.maxAmountRequired,
            InsufficientAmountReason(request)>>,
          <<requirements.asset # ZeroAddress /\ requirements.asset \notin supportedTokens,
            "Unsupported token">>,
          <<now < authorization.validAfter, "Payment not yet valid">>,
          <<now > authorization.validBefore, "Payment expired">> >>

FailingChecks(request, now) ==
    { i \in 1..7 : PipelineChecks(request, now)[i][1] }

FirstFailing(request, now) ==
    CHOOSE i \in FailingChecks(request, now) :
        \A j \in FailingChecks(request, now) : i <= j

\* C12: verifyPayment applies version, scheme, signature, amount, token support and
\* time window in this order and stops at the first failure: the reason reported is
\* that of the earliest failing check, and isSupportedToken is not called when a check
\* before the token check fails.
C12_ChecksInOrder ==
    (CallMade /\ FailingChecks(verifyCall.request, verifyCall.now) # {}) =>
        LET first == FirstFailing(verifyCall.request, verifyCall.now) IN
        /\ ~verifyCall.result.isValid
        /\ verifyCall.result.invalidReason =
             PipelineChecks(verifyCall.request, verifyCall.now)[first][2]
        /\ first < 5 => verifyCall.tokenCalls = <<>>

C12_Witness ==
    /\ CallMade
    /\ {3, 4, 5} \subseteq FailingChecks(verifyCall.request, verifyCall.now)
    /\ FirstFailing(verifyCall.request, verifyCall.now) = 3
    /\ verifyCall.result.invalidReason = "Invalid signature"
    /\ verifyCall.tokenCalls = <<>>

\* the request satisfies what the spec asks of a valid payment at time now
ValidPayment(request, now) ==
    LET authorization == PayloadOf(request).payload.authorization
        requirements == request.paymentRequirements
    IN /\ ~VersionFails(request)
       /\ ~SchemeFails(request)
       /\ PayloadOf(request).network \in SupportedNetworks
       /\ ValidlySigned(request)
       /\ requirements.maxAmountRequired > 0
       /\ requirements.payTo.hex # ZeroAddress
       /\ requirements.asset = ZeroAddress \/ requirements.asset \in supportedTokens
       /\ authorization.value >= requirements.maxAmountRequired
       /\ authorization.to.hex = requirements.payTo.hex
       /\ authorization.validAfter <= now
       /\ now <= authorization.validBefore

\* C13: for a valid requirement and a validly signed authorization with value at least
\* the required amount, to = payTo and now within [validAfter, validBefore],
\* verifyPayment answers isValid = true with expiresAt = validBefore.
C13_ValidPaymentAccepted ==
    (CallMade /\ ValidPayment(verifyCall.request, verifyCall.now)) =>
        /\ ~verifyCall.result.threw
        /\ verifyCall.result.isValid
        /\ verifyCall.result.expiresAt =
             PayloadOf(verifyCall.request).payload.authorization.validBefore

C13_Witness ==
    /\ CallMade
    /\ ValidPayment(verifyCall.request, verifyCall.now)
    /\ PayloadOf(verifyCall.request).payload.authorization.from.lower
    /\ PayloadOf(verifyCall.request).payload.authorization.validAfter = verifyCall.now
    /\ verifyCall.result.isValid

\* C14: a payload whose signature authorization.from did not make over the typed
\* authorization is answered isValid = false with reason 'Invalid signature', whatever
\* its amount, recipient, token and time window.
C14_ForeignSignatureRejected ==
    (CallMade /\ ~VersionFails(verifyCall.request) /\ ~SchemeFails(verifyCall.request)
       /\ ~SignedByFrom(verifyCall.request)) =>
        /\ ~verifyCall.result.threw
        /\ ~verifyCall.result.isValid
        /\ verifyCall.result.invalidReason = "Invalid signature"

C14_Witness ==
    /\ CallMade
    /\ ~SignedByFrom(verifyCall.request)
    /\ PayloadOf(verifyCall.request).payload.signature # MalformedSignature
    /\ FailingChecks(verifyCall.request, verifyCall.now) = {3}
    /\ verifyCall.result.invalidReason = "Invalid signature"

\* the checks numbered below n all pass
PassesBefore(n, request, now) ==
    \A i \in FailingChecks(request, now) : i >= n

\* C15: the amount check passes exactly when authorization.value >= maxAmountRequired:
\* a value equal to the required amount is not rejected for its amount, a value below
\* it (one unit below included) is rejected with the insufficient-amount reason.
C15_AmountBoundary ==
    (CallMade /\ PassesBefore(4, verifyCall.request, verifyCall.now)) =>
        LET value == PayloadOf(verifyCall.request).payload.authorization.value
            required == verifyCall.request.paymentRequirements.maxAmountRequired
        IN /\ value >= required =>
                \/ verifyCall.result.isValid
                \/ verifyCall.result.invalidReason \in
                     {"Unsupported token", "Payment not yet valid", "Payment expired"}
           /\ value < required =>
                /\ ~verifyCall.result.isValid
                /\ verifyCall.result.invalidReason =
                     InsufficientAmountReason(verifyCall.request)

C15_Witness ==
    /\ CallMade
    /\ PassesBefore(4, verifyCall.request, verifyCall.now)
    /\ PayloadOf(verifyCall.request).payload.authorization.value + 1
         = verifyCall.request.paymentRequirements.maxAmountRequired
    /\ verifyCall.result.invalidReason = InsufficientAmountReason(verifyCall.request)

\* C16: the validity window is inclusive at both ends: once the checks before it pass,
\* the call is valid iff validAfter <= now <= validBefore; validBefore = now is valid,
\* validBefore < now is 'Payment expired', validAfter > now is 'Payment not yet valid'.
C16_WindowInclusive ==
    (CallMade /\ PassesBefore(6, verifyCall.request, verifyCall.now)) =>
        LET authorization == PayloadOf(verifyCall.request).payload.authorization
            now == verifyCall.now
        IN /\ verifyCall.result.isValid <=>
                (authorization.validAfter <= now /\ now <= authorization.validBefore)
           /\ authorization.validAfter > now =>
                verifyCall.result.invalidReason = "Payment not yet valid"
           /\ (authorization.validAfter <= now /\ authorization.validBefore < now) =>
                verifyCall.result.invalidReason = "Payment expired"

C16_Witness ==
    /\ CallMade
    /\ PassesBefore(6, verifyCall.request, verifyCall.now)
    /\ PayloadOf(verifyCall.request).payload.authorization.validBefore = verifyCall.now
    /\ verifyCall.result.isValid

\* C17: a requirement in the native token (zero address) passes the token check without
\* a call to isSupportedToken; for any other asset that reaches the token check,
\* isSupportedToken is asked about it and 'Unsupported token' is the answer exactly when
\* the token registry does not list it.
C17_TokenSupport ==
    CallMade =>
        LET asset == verifyCall.request.paymentRequirements.asset IN
        /\ asset = ZeroAddress =>
             /\ verifyCall.tokenCalls = <<>>
             /\ verifyCall.result.invalidReason # "Unsupported token"
        /\ (asset # ZeroAddress /\ PassesBefore(5, verifyCall.request, verifyCall.now)) =>
             /\ verifyCall.tokenCalls = <<asset>>
             /\ (verifyCall.result.invalidReason = "Unsupported token")
                  <=> (asset \notin supportedTokens)

C17_Witness ==
    /\ CallMade
    /\ verifyCall.request.paymentRequirements.asset = ZeroAddress
    /\ PassesBefore(5, verifyCall.request, verifyCall.now)
    /\ verifyCall.tokenCalls = <<>>
    /\ verifyCall.result.isValid

\* C18: a payload naming a network that is none of the supported identifiers is never
\* answered isValid = true: its signature is not checked under another network's chain id.
C18_UnknownNetworkFailsClosed ==
    (CallMade /\ PayloadOf(verifyCall.request).network \notin SupportedNetworks
       /\ verifyCall.request.paymentRequirements.extra = NoDomain) =>
        (verifyCall.result.threw \/ ~verifyCall.result.isValid)

\* C19: a header that is not base64 of a JSON payload is answered with the
\* invalid-encoding client error (INVALID_REQUEST, status 400), not an internal error.
C19_InvalidEncodingReported ==
    (verifyCall # <<>> /\ decodeThrows(verifyCall.request.paymentHeader)) =>
        \/ /\ verifyCall.result.threw
           /\ verifyCall.result.code = "INVALID_REQUEST"
           /\ verifyCall.result.statusCode = 400
        \/ /\ ~verifyCall.result.threw
           /\ ~verifyCall.result.isValid
           /\ verifyCall.result.invalidReason = "Invalid payment header encoding"

\* a verifyPayment call is made or repeated in this step
VerifyPaymentStep == verifyCall' # verifyCall /\ verifyCall' # <<>>

----------------------------------------------------------------------------
(* StatusService and GET /api/v1/status/:paymentId *)

StatusExpirySeconds == 3600     \* "assuming 1 hour timeout"

MalformedPaymentId == <<"0x123", "short">>   \* a :paymentId that is not 66 characters

\* How the registry read made for a status request ends
StatusRpcOutcomes == {"answer", "error"}

NotFound == [threw |-> FALSE, found |-> FALSE]     \* getPaymentStatus returns null

\* the status getPaymentStatus derives from a record that exists
statusOf(record, now) ==
    IF record.settled THEN "settled"
    ELSE IF now > record.timestamp + StatusExpirySeconds THEN "expired"
    ELSE "verified"

\* StatusService.getPaymentStatus; rpc is how contractService.getPaymentRecord ends
getPaymentStatus(paymentId, now, rpc) ==
    LET record == getPaymentRecord(paymentId) IN
    IF rpc # "answer"
    THEN Thrown("INTERNAL_ERROR", "Failed to get payment status", 500)
    ELSE IF record.timestamp = 0
    THEN NotFound
    ELSE [threw |-> FALSE, found |-> TRUE,
          paymentId |-> paymentId,
          status |-> statusOf(record, now),
          amount |-> record.amount,
          asset |-> "",
          payer |-> record.payer,
          payee |-> "",
          network |-> record.originChain,
          resource |-> "",
          createdAt |-> record.timestamp,
          verifiedAt |-> record.timestamp,
          settledAt |-> IF record.settled THEN {record.timestamp} ELSE {},
          txHash |-> record.txHash,
          originChain |-> record.originChain]

\* The HTTP response of GET /api/v1/status/:paymentId (errors through errorHandler)
statusRoute(paymentId, now, rpc) ==
    LET status == getPaymentStatus(paymentId, now, rpc) IN
    IF paymentId = NoPaymentId \/ paymentId = MalformedPaymentId
    THEN [statusCode |-> 400,
          body |-> [code |-> "INVALID_REQUEST", message |-> "Invalid payment ID format"]]
    ELSE IF status.threw
    THEN [statusCode |-> status.statusCode,
          body |-> [code |-> status.code, message |-> status.message]]
    ELSE IF ~status.found
    THEN [statusCode |-> 404,
          body |-> [code |-> "PAYMENT_NOT_FOUND", message |-> "Payment not found"]]
    ELSE [statusCode |-> 200, body |-> status]

----------------------------------------------------------------------------
(* SpecStatus: status requests against a registry the facilitator writes to *)

\* Math.floor(Date.now() / 1000) at a status request: the first block's second, and
\* the seconds around one minute and around one hour after it
StatusTimes == {1, 61, 62, 3601, 3602}

\* the facilitator records a payment of the premium resource
StatusRecordPayment ==
    \E amount \in 1..MaxAmount, txHash \in {"0xtx1", "0xtx2"} :
        /\ recordPayment(Deployer, Merchant, PremiumResource, Payer, amount, txHash)
        /\ UNCHANGED <<blockTimestamp, offChainVars>>

\* the facilitator marks a recorded payment settled
StatusMarkSettled ==
    \E paymentId \in DOMAIN paymentRecords :
        /\ markPaymentSettled(Deployer, paymentId, "0xsettle")
        /\ UNCHANGED <<blockTimestamp, offChainVars>>

\* GET /api/v1/status/:paymentId is served at the second `now`
StatusRequest ==
    \E paymentId \in DOMAIN paymentRecords \cup {UnknownPaymentId, MalformedPaymentId},
       now \in StatusTimes, rpc \in StatusRpcOutcomes :
        /\ now >= clock
        /\ clock' = now
        /\ statusCall' = [paymentId |-> paymentId, now |-> now, rpc |-> rpc,
                          response |-> statusRoute(paymentId, now, rpc)]
        /\ UNCHANGED <<registryVars, blockTimestamp, lastCall, supportedTokens, settle,
                       verifyCall, middleware, escrowVars, tokenVars>>

StatusNextBlock ==
    /\ blockTimestamp < MaxTime
    /\ blockTimestamp' = blockTimestamp + 1
    /\ UNCHANGED <<registryVars, lastCall, offChainVars>>

NextStatus ==
    \/ StatusRecordPayment
    \/ StatusMarkSettled
    \/ StatusRequest
    \/ StatusNextBlock

SpecStatus == InitSettle /\ [][NextStatus]_vars

----------------------------------------------------------------------------
(* X402Server (SDK) and the Express middleware x402Middleware *)

\* What axios.post to the facilitator ends with: a 2xx response carrying data, a
\* response with an error status (axios rejects with error.response set), or no
\* response at all. message is the rejection's error.message.
HttpOk(data) == [kind |-> "ok", data |-> data, message |-> ""]

HttpError(statusCode, bodyMessage) ==
    [kind |-> "status", data |-> [message |-> bodyMessage],
     message |-> "Request failed with status code " \o ToString(statusCode)]

NetworkError == [kind |-> "network", data |-> [message |-> "undefined"],
                 message |-> "connect ECONNREFUSED 127.0.0.1:3001"]

\* x || y for strings: undefined, null and the empty string are falsy
OrElse(x, y) == IF x \in {"undefined", "null", ""} THEN y ELSE x

\* error.response?.data?.message || error.message
errorReason(reply) ==
    OrElse(IF reply.kind = "status" THEN reply.data.message ELSE "undefined", reply.message)

RegisteredPaymentId == PaymentIdOf(Merchant, PremiumResource, Payer, 1, 1, "0xtx1")

\* Replies of POST /api/v1/verify: verdicts of verifyPayment, errors sent by
\* errorHandler, a gateway's error page, no connection
VerifyReplies ==
    { HttpOk([isValid |-> TRUE, invalidReason |-> "null"]),
      HttpOk([isValid |-> FALSE, invalidReason |-> "Invalid signature"]),
      HttpError(400, "Missing required fields: x402Version, paymentHeader, paymentRequirements"),
      HttpError(500, "Verification failed"),
      HttpError(502, "undefined"),
      NetworkError }

\* Replies of POST /api/v1/settle
SettleReplies ==
    { HttpOk([success |-> TRUE, error |-> "null", txHash |-> "0xtx1",
              registryTxHash |-> RegisteredPaymentId]),
      HttpError(400, "Payment verification failed: Invalid signature"),
      HttpError(400, "Transaction hash not provided by agent"),
      HttpError(500, "Settlement failed"),
      HttpError(502, "undefined"),
      NetworkError }

\* the paymentRequirements object the three methods of X402Server build
ServerRequirements(requirement) ==
    [scheme |-> "exact",
     network |-> OrElse(requirement.network, "push-chain"),
     maxAmountRequired |-> requirement.amount,
     resource |-> requirement.resource,
     description |-> requirement.description,
     mimeType |-> OrElse(requirement.mimeType, "application/json"),
     payTo |-> requirement.payTo,
     maxTimeoutSeconds |-> 3600,
     asset |-> requirement.asset]

\* X402Server.create402Response
create402Response(requirement) ==
    [statusCode |-> 402,
     headers |-> [XPaymentRequirements |-> ServerRequirements(requirement),
                  ContentType |-> OrElse(requirement.mimeType, "application/json")],
     body |-> [error |-> "Payment Required", message |-> requirement.description,
               paymentRequirements |-> ServerRequirements(requirement)]]

\* X402Server.verifyPayment whose catch block rethrows
X402Server_verifyPayment_Rethrowing(reply) ==
    IF reply.kind = "ok"
    THEN [threw |-> FALSE, isValid |-> reply.data.isValid,
          invalidReason |-> reply.data.invalidReason]
    ELSE [threw |-> TRUE, isValid |-> FALSE, invalidReason |-> errorReason(reply)]

\* X402Server.verifyPayment, given how its axios.post ended
X402Server_verifyPayment(reply) ==
    IF reply.kind = "ok"
    THEN [threw |-> FALSE, isValid |-> reply.data.isValid,
          invalidReason |-> reply.data.invalidReason]
    ELSE [threw |-> FALSE, isValid |-> FALSE, invalidReason |-> errorReason(reply)]

\* X402Server.settlePayment, given how its axios.post ended; a paymentId of null is
\* NoPaymentId
X402Server_settlePayment(reply) ==
    IF reply.kind = "ok"
    THEN [threw |-> FALSE, success |-> reply.data.success, error |-> reply.data.error,
          txHash |-> reply.data.txHash, paymentId |-> reply.data.registryTxHash]
    ELSE [threw |-> FALSE, success |-> FALSE, error |-> errorReason(reply),
          txHash |-> "null", paymentId |-> NoPaymentId]

HttpRequests == {"r1", "r2"}     \* the requests to the protected route of a behaviour

\* X-Payment as Express reads it: absent, empty, or the agent's encoded payload
PaymentHeaders == {"undefined", "", "eyJ4NDAyVmVyc2lvbiI6MX0="}

\* the PaymentRequirement the middleware builds for req.path under its config
\* (payTo, asset; network, getPriceForResource and getDescription left to default)
MiddlewareRequirement(path) ==
    [resource |-> path, amount |-> "1000000", asset |-> USDC, network |-> "push-chain",
     description |-> "Access to " \o path, mimeType |-> "undefined", payTo |-> Merchant]

IdleRequest ==
    [pc |-> "idle", paymentHeader |-> "undefined", calls |-> <<>>,
     verifyReply |-> <<>>, verification |-> <<>>,
     settleReply |-> <<>>, settlement |-> <<>>,
     response |-> <<>>, payment |-> <<>>]

Respond(call, statusCode, body) ==
    [call EXCEPT !.pc = "responded",
                 !.response = [statusCode |-> statusCode, body |-> body]]

\* the catch block of the middleware
MiddlewareCatch(call) == Respond(call, 500, [error |-> "Payment processing failed"])

\* if (!paymentHeader) return send402Response(...)
afterHeader(call, path) ==
    IF call.paymentHeader \in {"undefined", ""}
    THEN [call EXCEPT !.pc = "responded",
                      !.response = create402Response(MiddlewareRequirement(path))]
    ELSE [call EXCEPT !.pc = "verifyPayment"]

\* the middleware going on to settle whatever verifyPayment answered
afterVerification_IgnoringVerdict(call) ==
    IF call.verification.threw THEN MiddlewareCatch(call)
    ELSE [call EXCEPT !.pc = "settlePayment"]

\* if (!verification.isValid) return res.status(402)...
afterVerification(call) ==
    IF call.verification.threw THEN MiddlewareCatch(call)
    ELSE IF ~call.verification.isValid
    THEN Respond(call, 402, [error |-> "Invalid payment",
                             reason |-> call.verification.invalidReason])
    ELSE [call EXCEPT !.pc = "settlePayment"]

\* if (!settlement.success) return res.status(500)...; onPaymentVerified; next()
afterSettlement(call) ==
    IF call.settlement.threw THEN MiddlewareCatch(call)
    ELSE IF ~call.settlement.success
    THEN Respond(call, 500, [error |-> "Settlement failed",
                             reason |-> call.settlement.error])
    ELSE [call EXCEPT
            !.pc = "next",
            !.calls = IF call.settlement.paymentId # NoPaymentId
                      THEN @ \o <<"onPaymentVerified", "next">>
                      ELSE Append(@, "next"),
            !.payment = [paymentId |-> call.settlement.paymentId,
                         txHash |-> call.settlement.txHash, verified |-> TRUE]]

----------------------------------------------------------------------------
(* SpecMiddleware: requests to a route protected by x402Middleware *)

InitMiddleware ==
    /\ roles = {<<DEFAULT_ADMIN_ROLE, Deployer>>, <<FACILITATOR_ROLE, Deployer>>}
    /\ paymentRequirements = [m \in Accounts |-> [r \in Resources |-> ZeroRequirement]]
    /\ paymentRecords = <<>>
    /\ merchantPayments = [m \in Accounts |-> <<>>]
    /\ settledEvents = <<>>
    /\ blockTimestamp = 1
    /\ lastCall = [op |-> "constructor", caller |-> Deployer, outcome |-> "ok",
                   paymentId |-> NoPaymentId]
    /\ clock = 1
    /\ supportedTokens = {}
    /\ settle = <<>>
    /\ verifyCall = <<>>
    /\ statusCall = <<>>
    /\ middleware = [r \in HttpRequests |-> IdleRequest]
    /\ EscrowConstructor
    /\ TokenManagerConstructor

MiddlewareFrame ==
    UNCHANGED <<registryVars, blockTimestamp, lastCall, clock, supportedTokens, settle,
                verifyCall, statusCall, escrowVars, tokenVars>>

\* the request enters the middleware: the header check
MiddlewareReceive(r) ==
    \E paymentHeader \in PaymentHeaders :
        /\ middleware[r].pc = "idle"
        /\ middleware' = [middleware EXCEPT ![r] =
                            afterHeader([@ EXCEPT !.paymentHeader = paymentHeader],
                                        PremiumResource)]
        /\ MiddlewareFrame

\* await server.verifyPayment(paymentHeader, requirement) returns
MiddlewareVerify(r) ==
    \E reply \in VerifyReplies :
        /\ middleware[r].pc = "verifyPayment"
        /\ middleware' = [middleware EXCEPT ![r] =
                            afterVerification(
                                [@ EXCEPT !.calls = Append(@, "verifyPayment"),
                                          !.verifyReply = reply,
                                          !.verification = X402Server_verifyPayment(reply)])]
        /\ MiddlewareFrame

\* await server.settlePayment(paymentHeader, requirement) returns
MiddlewareSettle(r) ==
    \E reply \in SettleReplies :
        /\ middleware[r].pc = "settlePayment"
        /\ middleware' = [middleware EXCEPT ![r] =
                            afterSettlement(
                                [@ EXCEPT !.calls = Append(@, "settlePayment"),
                                          !.settleReply = reply,
                                          !.settlement = X402Server_settlePayment(reply)])]
        /\ MiddlewareFrame

NextMiddleware ==
    \/ \E r \in HttpRequests : MiddlewareReceive(r)
    \/ \E r \in HttpRequests : MiddlewareVerify(r)
    \/ \E r \in HttpRequests : MiddlewareSettle(r)

SpecMiddleware == InitMiddleware /\ [][NextMiddleware]_vars

----------------------------------------------------------------------------
(* X402PaymentEscrow *)

\* Roles of the escrow contract: its constructor grants both to the deployer, and the
\* contract has no function of its own that grants a role
escrowHasRole(role, account) ==
    <<role, account>> \in {<<DEFAULT_ADMIN_ROLE, Deployer>>, <<FACILITATOR_ROLE, Deployer>>}

\* mapping default: EscrowStatus.Active is the enum's first member, so its zero value
ZeroEscrow ==
    [payer |-> ZeroAddress, payee |-> ZeroAddress, asset |-> ZeroAddress, amount |-> 0,
     createdAt |-> 0, expiresAt |-> 0, status |-> "Active", paymentId |-> NoPaymentId,
     resource |-> ""]

getEscrow(escrowId) ==
    IF escrowId \in DOMAIN escrows THEN escrows[escrowId] ELSE ZeroEscrow

getEscrowStatus(escrowId) == getEscrow(escrowId).status

\* what the escrow contract holds of an asset (its balance of the native token for
\* address(0), its ERC-20 balance otherwise)
held(asset) == IF asset \in DOMAIN escrowFunds THEN escrowFunds[asset] ELSE 0

\* keccak256(abi.encodePacked(msg.sender, payee, amount, block.timestamp, paymentId)):
\* five fixed-width fields, so the packing is injective on them
EscrowIdOf(sender, payee, amount, timestamp, paymentId) ==
    <<sender, payee, amount, timestamp, paymentId>>

UnknownEscrowId == <<"0x777">>

EscrowPaymentId == <<Merchant, PremiumResource, Payer, 1, 1, "0xtx1">>

\* pulled: whether safeTransferFrom(msg.sender, this, amount) goes through
createEscrowOutcome(payee, asset, amount, value, pulled) ==
    IF payee = ZeroAddress THEN "Invalid payee"
    ELSE IF ~(amount > 0) THEN "Amount must be greater than 0"
    ELSE IF asset = ZeroAddress
    THEN IF value # amount THEN "Incorrect native token amount" ELSE "ok"
    ELSE IF value # 0 THEN "Should not send native token"
    ELSE IF ~pulled THEN "SafeERC20FailedOperation"
    ELSE "ok"

\* The transfer out of the contract: payee.call{value: amount}("") for the native
\* token (accepts: whether a recipient with code takes it), safeTransfer otherwise
transferOutcome(asset, to, amount, accepts) ==
    IF asset = ZeroAddress
    THEN IF held(asset) < amount \/ (to # ZeroAddress /\ ~accepts)
         THEN "Native transfer failed"
         ELSE "ok"
    ELSE IF held(asset) < amount THEN "SafeERC20FailedOperation"
    ELSE "ok"

\* escrows[id] = Escrow({...}): an unconditional store
StoreEscrow(escrowId, escrow) ==
    [id \in DOMAIN escrows \cup {escrowId} |->
        IF id = escrowId THEN escrow ELSE escrows[id]]

SetHeld(asset, amount) ==
    [a \in DOMAIN escrowFunds \cup {asset} |->
        IF a = asset THEN amount ELSE escrowFunds[a]]

createEscrow(sender, payee, asset, amount, value, timeoutSeconds, paymentId, resource, pulled) ==
    LET outcome == createEscrowOutcome(payee, asset, amount, value, pulled)
        escrowId == EscrowIdOf(sender, payee, amount, blockTimestamp, paymentId)
    IN
    /\ IF outcome = "ok"
       THEN /\ escrows' =
                 StoreEscrow(escrowId,
                             [payer |-> sender, payee |-> payee, asset |-> asset,
                              amount |-> amount, createdAt |-> blockTimestamp,
                              expiresAt |-> blockTimestamp + timeoutSeconds,
                              status |-> "Active", paymentId |-> paymentId,
                              resource |-> resource])
            /\ escrowFunds' = SetHeld(asset, held(asset) + amount)
       ELSE UNCHANGED <<escrows, escrowFunds>>
    /\ escrowCall' = [op |-> "createEscrow", caller |-> sender,
                      escrowId |-> IF outcome = "ok" THEN escrowId ELSE NoEscrowId,
                      outcome |-> outcome, asset |-> asset, to |-> ZeroAddress,
                      transferred |-> 0]

\* refundEscrow that lets nobody but the payer and the facilitator refund
refundAuthorized_NeverByTimeout(caller, escrow, timestamp) ==
    \/ caller = escrow.payer
    \/ escrowHasRole(FACILITATOR_ROLE, caller)

\* msg.sender == payer || block.timestamp > expiresAt || hasRole(FACILITATOR_ROLE, msg.sender)
refundAuthorized(caller, escrow, timestamp) ==
    \/ caller = escrow.payer
    \/ timestamp > escrow.expiresAt
    \/ escrowHasRole(FACILITATOR_ROLE, caller)

releaseEscrowOutcome(caller, escrowId, accepts) ==
    LET escrowData == getEscrow(escrowId) IN
    IF ~escrowHasRole(FACILITATOR_ROLE, caller) THEN "AccessControlUnauthorizedAccount"
    ELSE IF escrowData.status # "Active" THEN "Escrow not active"
    ELSE transferOutcome(escrowData.asset, escrowData.payee, escrowData.amount, accepts)

refundEscrowOutcome(caller, escrowId, accepts) ==
    LET escrowData == getEscrow(escrowId) IN
    IF escrowData.status # "Active" THEN "Escrow not active"
    ELSE IF ~refundAuthorized(caller, escrowData, blockTimestamp)
    THEN "Not authorized to refund"
    ELSE transferOutcome(escrowData.asset, escrowData.payer, escrowData.amount, accepts)

\* the effect shared by a release and a refund that went through: the status is
\* written through the storage pointer and the amount leaves the contract
PayOut(op, caller, escrowId, outcome, status, to) ==
    LET escrowData == getEscrow(escrowId) IN
    /\ IF outcome = "ok"
       THEN /\ escrows' = StoreEscrow(escrowId, [escrowData EXCEPT !.status = status])
            /\ escrowFunds' = SetHeld(escrowData.asset,
                                      held(escrowData.asset) - escrowData.amount)
       ELSE UNCHANGED <<escrows, escrowFunds>>
    /\ escrowCall' = [op |-> op, caller |-> caller, escrowId |-> escrowId,
                      outcome |-> outcome, asset |-> escrowData.asset,
                      to |-> IF outcome = "ok" THEN to ELSE ZeroAddress,
                      transferred |-> IF outcome = "ok" THEN escrowData.amount ELSE 0]

releaseEscrow(caller, escrowId, accepts) ==
    PayOut("releaseEscrow", caller, escrowId,
           releaseEscrowOutcome(caller, escrowId, accepts), "Released",
           getEscrow(escrowId).payee)

refundEscrow(caller, escrowId, accepts) ==
    PayOut("refundEscrow", caller, escrowId,
           refundEscrowOutcome(caller, escrowId, accepts), "Refunded",
           getEscrow(escrowId).payer)

----------------------------------------------------------------------------
(* SpecEscrow: transactions sent to the escrow contract *)

MaxHeld == 2          \* the escrow contract holds at most this much of an asset

EscrowAmounts == {0, 1}

InitEscrow ==
    /\ roles = {<<DEFAULT_ADMIN_ROLE, Deployer>>, <<FACILITATOR_ROLE, Deployer>>}
    /\ paymentRequirements = [m \in Accounts |-> [r \in Resources |-> ZeroRequirement]]
    /\ paymentRecords = <<>>
    /\ merchantPayments = [m \in Accounts |-> <<>>]
    /\ settledEvents = <<>>
    /\ blockTimestamp = 1
    /\ lastCall = [op |-> "constructor", caller |-> Deployer, outcome |-> "ok",
                   paymentId |-> NoPaymentId]
    /\ clock = 1
    /\ supportedTokens = {}
    /\ settle = <<>>
    /\ verifyCall = <<>>
    /\ statusCall = <<>>
    /\ middleware = <<>>
    /\ EscrowConstructor
    /\ TokenManagerConstructor

EscrowFrame ==
    UNCHANGED <<registryVars, blockTimestamp, lastCall, clock, supportedTokens, settle,
                verifyCall, statusCall, middleware, tokenVars>>

\* createEscrow sent by the payer, with or without the native amount attached
EscrowCreate ==
    \E payee \in {ZeroAddress, Merchant}, asset \in {ZeroAddress, USDC},
       amount \in EscrowAmounts, value \in EscrowAmounts, timeoutSeconds \in {0, 1},
       pulled \in BOOLEAN :
        /\ held(asset) + amount <= MaxHeld
        /\ createEscrow(Payer, payee, asset, amount, value, timeoutSeconds,
                        EscrowPaymentId, PremiumResource, pulled)
        /\ EscrowFrame

\* releaseEscrow sent by the facilitator or by the payee
EscrowRelease ==
    \E caller \in {Deployer, Merchant},
       escrowId \in DOMAIN escrows \cup {UnknownEscrowId}, accepts \in BOOLEAN :
        /\ releaseEscrow(caller, escrowId, accepts)
        /\ EscrowFrame

\* refundEscrow sent by the facilitator, the payer or a third party
EscrowRefund ==
    \E caller \in {Deployer, Payer, Other},
       escrowId \in DOMAIN escrows \cup {UnknownEscrowId}, accepts \in BOOLEAN :
        /\ refundEscrow(caller, escrowId, accepts)
        /\ EscrowFrame

EscrowNextBlock ==
    /\ blockTimestamp < MaxTime
    /\ blockTimestamp' = blockTimestamp + 1
    /\ UNCHANGED <<registryVars, lastCall, offChainVars>>

NextEscrow ==
    \/ EscrowCreate
    \/ EscrowRelease
    \/ EscrowRefund
    \/ EscrowNextBlock

SpecEscrow == InitEscrow /\ [][NextEscrow]_vars

----------------------------------------------------------------------------
(* X402TokenManager *)

\* the constructor grants DEFAULT_ADMIN_ROLE to the deployer
tokenManagerHasRole(role, account) == <<role, account>> = <<DEFAULT_ADMIN_ROLE, Deployer>>

USDC_SEPOLIA == "0x036CbD53842c5426634e7929541eC2318f3dCF7e"
USDC_BASE == "0x833589fCD6eDb6E08f4c7C32D4f71b54bdA02913"

ZeroTokenInfo ==
    [tokenAddress |-> ZeroAddress, symbol |-> "", decimals |-> 0, isActive |-> FALSE,
     addedAt |-> 0, updatedAt |-> 0]

getTokenInfo(tokenAddress) ==
    IF tokenAddress \in DOMAIN tokens THEN tokens[tokenAddress] ELSE ZeroTokenInfo

\* tokenExists[tokenAddress]
tokenExists(tokenAddress) == tokenAddress \in supportedTokens

getAllSupportedTokens == tokenList

\* getActiveTokens: the listed tokens whose isActive is set, in list order
getActiveTokens == SelectSeq(tokenList, LAMBDA token : getTokenInfo(token).isActive)

\* removeSupportedToken that deletes the mappings and leaves the array alone
RemoveFromList_Not(list, tokenAddress) == list

\* the loop of removeSupportedToken: the first match is overwritten by the last
\* element and the array is popped
RemoveFromList(list, tokenAddress) ==
    LET matches == { i \in DOMAIN list : list[i] = tokenAddress } IN
    IF matches = {} THEN list
    ELSE LET first == CHOOSE i \in matches : \A j \in matches : i <= j
             moved == [list EXCEPT ![first] = list[Len(list)]]
         IN SubSeq(moved, 1, Len(list) - 1)

\* isSupportedToken that answers with the token's isActive flag
isSupportedTokenOnChain_ActiveOnly(tokenAddress) == getTokenInfo(tokenAddress).isActive

\* X402TokenManager.isSupportedToken
isSupportedTokenOnChain(tokenAddress) == tokenExists(tokenAddress)

addSupportedTokenOutcome(caller, tokenAddress, symbol) ==
    IF ~tokenManagerHasRole(DEFAULT_ADMIN_ROLE, caller)
    THEN "AccessControlUnauthorizedAccount"
    ELSE IF tokenAddress = ZeroAddress THEN "Invalid token address"
    ELSE IF symbol = "" THEN "Symbol cannot be empty"
    ELSE IF tokenExists(tokenAddress) THEN "Token already exists"
    ELSE "ok"

\* removeSupportedToken and updateTokenStatus share their checks
existingTokenOutcome(caller, tokenAddress) ==
    IF ~tokenManagerHasRole(DEFAULT_ADMIN_ROLE, caller)
    THEN "AccessControlUnauthorizedAccount"
    ELSE IF ~tokenExists(tokenAddress) THEN "Token does not exist"
    ELSE "ok"

TokenCall(op, caller, tokenAddress, outcome) ==
    [op |-> op, caller |-> caller, token |-> tokenAddress, outcome |-> outcome]

addSupportedToken(caller, tokenAddress, symbol, decimals, isActive) ==
    LET outcome == addSupportedTokenOutcome(caller, tokenAddress, symbol) IN
    /\ IF outcome = "ok"
       THEN /\ tokens' = [t \in DOMAIN tokens \cup {tokenAddress} |->
                            IF t = tokenAddress
                            THEN [tokenAddress |-> tokenAddress, symbol |-> symbol,
                                  decimals |-> decimals, isActive |-> isActive,
                                  addedAt |-> blockTimestamp, updatedAt |-> blockTimestamp]
                            ELSE tokens[t]]
            /\ tokenList' = Append(tokenList, tokenAddress)
            /\ supportedTokens' = supportedTokens \cup {tokenAddress}
       ELSE UNCHANGED <<tokens, tokenList, supportedTokens>>
    /\ tokenCall' = TokenCall("addSupportedToken", caller, tokenAddress, outcome)

removeSupportedToken(caller, tokenAddress) ==
    LET outcome == existingTokenOutcome(caller, tokenAddress) IN
    /\ IF outcome = "ok"
       THEN /\ tokenList' = RemoveFromList(tokenList, tokenAddress)
            /\ tokens' = [t \in DOMAIN tokens \ {tokenAddress} |-> tokens[t]]
            /\ supportedTokens' = supportedTokens \ {tokenAddress}
       ELSE UNCHANGED <<tokens, tokenList, supportedTokens>>
    /\ tokenCall' = TokenCall("removeSupportedToken", caller, tokenAddress, outcome)

updateTokenStatus(caller, tokenAddress, isActive) ==
    LET outcome == existingTokenOutcome(caller, tokenAddress) IN
    /\ IF outcome = "ok"
       THEN tokens' = [t \in DOMAIN tokens \cup {tokenAddress} |->
                          IF t = tokenAddress
                          THEN [getTokenInfo(t) EXCEPT !.isActive = isActive,
                                                       !.updatedAt = blockTimestamp]
                          ELSE tokens[t]]
       ELSE UNCHANGED tokens
    /\ tokenCall' = TokenCall("updateTokenStatus", caller, tokenAddress, outcome)
    /\ UNCHANGED <<tokenList, supportedTokens>>

----------------------------------------------------------------------------
(* SpecTokens: transactions sent to the token manager *)

TokenAddresses == {ZeroAddress, USDC, USDC_SEPOLIA, USDC_BASE}

TokenFrame ==
    UNCHANGED <<registryVars, blockTimestamp, lastCall, clock, settle, verifyCall,
                statusCall, middleware, escrowVars>>

TokensAdd ==
    \E caller \in {Deployer, Other}, tokenAddress \in TokenAddresses,
       symbol \in {"", "TKN"}, isActive \in BOOLEAN :
        /\ addSupportedToken(caller, tokenAddress, symbol, 18, isActive)
        /\ TokenFrame

TokensRemove ==
    \E caller \in {Deployer, Other}, tokenAddress \in TokenAddresses :
        /\ removeSupportedToken(caller, tokenAddress)
        /\ TokenFrame

TokensUpdateStatus ==
    \E caller \in {Deployer, Other}, tokenAddress \in TokenAddresses, isActive \in BOOLEAN :
        /\ updateTokenStatus(caller, tokenAddress, isActive)
        /\ TokenFrame

\* the chain produces a later block
TokensNextBlock ==
    /\ blockTimestamp < MaxTime
    /\ blockTimestamp' = blockTimestamp + 1
    /\ UNCHANGED <<registryVars, lastCall, offChainVars>>

NextTokens ==
    \/ TokensAdd
    \/ TokensRemove
    \/ TokensUpdateStatus
    \/ TokensNextBlock

SpecTokens == InitEscrow /\ [][NextTokens]_vars

----------------------------------------------------------------------------
(* SpecRetry: a POST /settle whose markPaymentSettled failed is posted again *)

\* settlePayment of slot s threw after its recordPayment had returned a payment id
MarkFailed(s) ==
    /\ settle[s].pc = "failed"
    /\ settle[s].paymentId # NoPaymentId

\* the client posts the request of the failed settlement once more
RetryVerify ==
    /\ MarkFailed("s1")
    /\ SettleVerify("s2")
    /\ settle'["s2"].request = settle["s1"].request

NextRetry ==
    \/ SettleVerify("s1")
    \/ RetryVerify
    \/ \E s \in Slots : SettleVerifyTransaction(s)
    \/ \E s \in Slots : SettleRecordPayment(s)
    \/ \E s \in Slots : SettleMarkPaymentSettled(s)
    \/ SettleTick
    \/ SettleNextBlock

SpecRetry == InitSettle /\ [][NextRetry]_vars

----------------------------------------------------------------------------
(* SpecPayTo: settlements for a requirement whose payTo need not be its owner *)

PayToAccounts == {Merchant, Other}

\* the merchant's createPaymentRequirement for the premium resource named payTo
\* as the recipient
InitPayTo ==
    /\ roles = {<<DEFAULT_ADMIN_ROLE, Deployer>>, <<FACILITATOR_ROLE, Deployer>>,
                <<MERCHANT_ROLE, Merchant>>}
    /\ \E payTo \in PayToAccounts :
         paymentRequirements =
           [m \in Accounts |-> [r \in Resources |->
              IF m = Merchant /\ r = PremiumResource
              THEN [scheme |-> "exact", network |-> "push-chain", maxAmountRequired |-> 1,
                    resource |-> PremiumResource, description |-> "Premium API access",
                    mimeType |-> "application/json", payTo |-> payTo,
                    maxTimeoutSeconds |-> 60, asset |-> ZeroAddress, isActive |-> TRUE,
                    createdAt |-> 1, updatedAt |-> 1]
              ELSE ZeroRequirement]]
    /\ paymentRecords = <<>>
    /\ merchantPayments = [m \in Accounts |-> <<>>]
    /\ settledEvents = <<>>
    /\ blockTimestamp = 1
    /\ lastCall = [op |-> "createPaymentRequirement", caller |-> Merchant,
                   outcome |-> "ok", paymentId |-> NoPaymentId]
    /\ clock = 1
    /\ supportedTokens = {USDC}
    /\ settle = [s \in Slots |-> IdleSettlement]
    /\ verifyCall = <<>>
    /\ statusCall = <<>>
    /\ middleware = <<>>
    /\ EscrowConstructor
    /\ TokenManagerWithUSDC

\* the recipient the merchant's requirement names
RegisteredPayTo == getPaymentRequirement(Merchant, PremiumResource).payTo

\* What the agent posts after paying the requirement's recipient: the requirement as
\* the merchant's server quotes it, the payer's authorization to payTo and the hash
\* of the payer's transfer to payTo
PayToRequest(payTo) ==
    Request(1,
            encodePaymentHeader(
                SettlementPayload(1, "exact", "push-chain", "payer", FALSE, payTo, 1,
                                  <<1, MaxClock>>,
                                  IF payTo = Merchant THEN "0xtx1" ELSE "0xtxToOther")),
            PaymentRequirements(1, AddrStr(payTo, FALSE), ZeroAddress))

\* settlePayment is entered with that request: verifyPayment, decode, the txHash check
PayToVerify(s) ==
    LET request == PayToRequest(RegisteredPayTo)
        step == settleVerification(request, clock)
        call == [IdleSettlement EXCEPT !.request = request,
                                       !.verification = verifyPayment(request, clock)]
    IN
    /\ settle[s].pc = "idle"
    /\ settle' = [settle EXCEPT ![s] =
                    IF step.threw THEN Failed(call, step.error)
                    ELSE [call EXCEPT !.pc = "verifyTransaction"]]
    /\ UNCHANGED <<registryVars, blockTimestamp, lastCall, clock, supportedTokens,
                   verifyCall, statusCall, middleware, escrowVars, tokenVars>>

NextPayTo ==
    \/ \E s \in Slots : PayToVerify(s)
    \/ \E s \in Slots : SettleVerifyTransaction(s)
    \/ \E s \in Slots : SettleRecordPayment(s)
    \/ \E s \in Slots : SettleMarkPaymentSettled(s)
    \/ SettleTick
    \/ SettleNextBlock

SpecPayTo == InitPayTo /\ [][NextPayTo]_vars

----------------------------------------------------------------------------
(* SpecMerchants: the registry with two merchants and one payer, within one block *)

\* Amounts at and around a requirement's: none, the smallest, the largest
MerchantAmounts == {0, 1, MaxAmount}

\* registerMerchant(merchant) sent by the admin or by a merchant
MerchantsRegister ==
    \E caller \in {Deployer, Merchant}, merchant \in {Merchant, Other} :
        /\ registerMerchant(caller, merchant)
        /\ UNCHANGED <<blockTimestamp, offChainVars>>

\* createPaymentRequirement sent by 0xAAA or 0xCCC, merchants or not yet
MerchantsCreateRequirement ==
    \E caller \in {Merchant, Other}, resource \in Resources,
       maxAmountRequired \in MerchantAmounts, payTo \in {ZeroAddress, Merchant} :
        /\ createPaymentRequirement(caller, resource, "exact", "push-chain",
                                    maxAmountRequired, "Premium API access",
                                    "application/json", payTo, 60, ZeroAddress)
        /\ UNCHANGED <<blockTimestamp, offChainVars>>

\* recordPayment for either merchant, sent by the facilitator or by a merchant
MerchantsRecordPayment ==
    \E caller \in {Deployer, Merchant}, merchant \in {Merchant, Other}, amount \in MerchantAmounts :
        /\ recordPayment(caller, merchant, PremiumResource, Payer, amount, "0xtx1")
        /\ UNCHANGED <<blockTimestamp, offChainVars>>

\* markPaymentSettled sent by the facilitator or by a merchant
MerchantsMarkSettled ==
    \E caller \in {Deployer, Merchant}, paymentId \in DOMAIN paymentRecords :
        /\ markPaymentSettled(caller, paymentId, "0xsettle")
        /\ UNCHANGED <<blockTimestamp, offChainVars>>

NextMerchants ==
    \/ MerchantsRegister
    \/ MerchantsCreateRequirement
    \/ MerchantsRecordPayment
    \/ MerchantsMarkSettled

SpecMerchants == Init /\ [][NextMerchants]_vars

----------------------------------------------------------------------------
(* Properties of the registry's records, roles and requirements *)

\* C21: a record carries the origin the resolver reports for its payer: for a
\* cross-chain account (chainNamespace, chainId, owner) originChain is
\* chainNamespace ":" chainId, originAddress is the owner and isUEA is true; otherwise
\* originChain is "push-chain", originAddress the payer and isUEA false.
C21_OriginAttribution ==
    \A id \in DOMAIN paymentRecords :
        LET record == paymentRecords[id]
            origin == getOriginForUEA(record.payer)
        IN IF origin.isUEA
           THEN /\ record.originChain =
                     origin.account.chainNamespace \o ":" \o origin.account.chainId
                /\ Bytes(record.originAddress, "") = origin.account.owner
                /\ record.isUEA
           ELSE /\ record.originChain = "push-chain"
                /\ record.originAddress = record.payer
                /\ ~record.isUEA

\* A call of recordPayment or markPaymentSettled has just returned
FacilitatorCallStep == lastCall'.op \in {"recordPayment", "markPaymentSettled"}

\* C22: recordPayment and markPaymentSettled succeed only for a caller holding the
\* facilitator role, whichever merchant the payment belongs to; a call by anyone
\* else, the merchant included, reverts and leaves the payment records and the
\* merchants' payment lists unchanged.
C22_FacilitatorOnly ==
    [][FacilitatorCallStep =>
         IF hasRole(FACILITATOR_ROLE, lastCall'.caller)
         THEN lastCall'.outcome # "AccessControlUnauthorizedAccount"
         ELSE /\ lastCall'.outcome = "AccessControlUnauthorizedAccount"
              /\ UNCHANGED <<paymentRecords, merchantPayments, settledEvents>>]_vars

\* The merchant itself tried to record a payment its active requirement would
\* accept, and the facilitator has recorded payments for both merchants
C22_Witness ==
    /\ lastCall.op = "recordPayment"
    /\ lastCall.caller = Merchant
    /\ hasRole(MERCHANT_ROLE, Merchant)
    /\ paymentRequirements[Merchant][PremiumResource].isActive
    /\ lastCall.outcome = "AccessControlUnauthorizedAccount"
    /\ Len(merchantPayments[Merchant]) > 0
    /\ Len(merchantPayments[Other]) > 0

\* The (merchant, resource) keys whose stored requirement differs after the step
RequirementsWritten ==
    { key \in Accounts \X Resources :
        paymentRequirements'[key[1]][key[2]] # paymentRequirements[key[1]][key[2]] }

\* C23: createPaymentRequirement succeeds only for a caller holding the merchant
\* role and writes only the entry keyed by (caller, resource), replacing what was
\* stored there; no call changes a requirement stored under another address, and
\* payment records are left unchanged.
C23_RequirementFrame ==
    [][/\ lastCall'.op # "createPaymentRequirement" => UNCHANGED paymentRequirements
       /\ lastCall'.op = "createPaymentRequirement" =>
            /\ lastCall'.outcome = "ok" => hasRole(MERCHANT_ROLE, lastCall'.caller)
            /\ lastCall'.outcome # "ok" => UNCHANGED paymentRequirements
            /\ Cardinality(RequirementsWritten) <= 1
            /\ \A key \in RequirementsWritten :
                 /\ key[1] = lastCall'.caller
                 /\ paymentRequirements'[key[1]][key[2]].isActive
                 /\ paymentRequirements'[key[1]][key[2]].resource = key[2]
            /\ UNCHANGED <<paymentRecords, merchantPayments>>]_vars

\* Both merchants hold a requirement of their own, and the first merchant has
\* replaced the one a recorded payment of 1 was accepted against
C23_Witness ==
    /\ lastCall.op = "createPaymentRequirement"
    /\ lastCall.caller = Merchant
    /\ lastCall.outcome = "ok"
    /\ paymentRequirements[Merchant][PremiumResource].maxAmountRequired = MaxAmount
    /\ paymentRequirements[Other][PremiumResource].maxAmountRequired = 1
    /\ \E id \in DOMAIN paymentRecords :
         /\ paymentRecords[id].requirementId = RequirementIdOf(Merchant, PremiumResource)
         /\ paymentRecords[id].amount = 1

MerchantsOf(roleSet) == { a \in Accounts : <<MERCHANT_ROLE, a>> \in roleSet }

\* C24: a principal holds the merchant role only if an admin granted it: nobody
\* holds it after construction, roles change only in a registerMerchant sent by an
\* admin, and registerMerchant sent by anyone else reverts with all roles unchanged.
C24_MerchantsByAdminOnly ==
    /\ MerchantsOf(roles) = {}
    /\ [][/\ roles' # roles =>
               /\ lastCall'.op = "registerMerchant"
               /\ lastCall'.outcome = "ok"
               /\ hasRole(DEFAULT_ADMIN_ROLE, lastCall'.caller)
               /\ Cardinality(MerchantsOf(roles') \ MerchantsOf(roles)) = 1
               /\ roles \subseteq roles'
          /\ (lastCall'.op = "registerMerchant"
                /\ ~hasRole(DEFAULT_ADMIN_ROLE, lastCall'.caller)) =>
               /\ lastCall'.outcome = "AccessControlUnauthorizedAccount"
               /\ UNCHANGED roles]_vars

\* An admin registered one merchant, and that merchant's own attempt to register
\* another principal reverted
C24_Witness ==
    /\ lastCall.op = "registerMerchant"
    /\ lastCall.caller = Merchant
    /\ lastCall.outcome = "AccessControlUnauthorizedAccount"
    /\ MerchantsOf(roles) = {Merchant}

ActiveRequirements ==
    { key \in Accounts \X Resources : paymentRequirements[key[1]][key[2]].isActive }

\* C25: every stored active requirement has maxAmountRequired > 0, a non-zero
\* payTo and a non-empty resource (createPaymentRequirement reverts, storing
\* nothing, on a zero amount, a zero payTo or an empty resource).
C25_ActiveRequirementsValid ==
    \A key \in ActiveRequirements :
        LET requirement == paymentRequirements[key[1]][key[2]] IN
        /\ requirement.maxAmountRequired > 0
        /\ requirement.payTo # ZeroAddress
        /\ requirement.resource # ""
        /\ key[2] # ""

\* A merchant holding an active requirement had a further createPaymentRequirement
\* reverted by one of the three argument checks
C25_Witness ==
    /\ lastCall.op = "createPaymentRequirement"
    /\ lastCall.caller = Merchant
    /\ lastCall.outcome \in {"Amount must be greater than 0", "Invalid payTo address",
                             "Resource cannot be empty"}
    /\ <<Merchant, PremiumResource>> \in ActiveRequirements

\* C26: recordPayment fails and creates no record (payment records and the
\* merchant's payment list unchanged) when (merchant, resource) has no active
\* requirement or amount < its maxAmountRequired; from the facilitator an amount
\* equal to (or above) maxAmountRequired is accepted and recorded.
C26_RecordNeedsRequirement ==
    [][\A caller \in {Deployer, Merchant}, merchant \in {Merchant, Other}, amount \in MerchantAmounts :
          recordPayment(caller, merchant, PremiumResource, Payer, amount, "0xtx1") =>
             LET requirement == getPaymentRequirement(merchant, PremiumResource) IN
             IF ~requirement.isActive \/ amount < requirement.maxAmountRequired
             THEN /\ lastCall'.outcome # "ok"
                  /\ UNCHANGED <<paymentRecords, merchantPayments>>
             ELSE hasRole(FACILITATOR_ROLE, caller) =>
                    /\ lastCall'.outcome = "ok"
                    /\ lastCall'.paymentId \in DOMAIN paymentRecords'
                    /\ paymentRecords'[lastCall'.paymentId].amount = amount
                    /\ merchantPayments'[merchant] =
                         Append(merchantPayments[merchant], lastCall'.paymentId)]_vars

\* A payment of exactly the required amount is on record for the merchant, a later
\* one was refused as insufficient, and the other merchant has no requirement
C26_Witness ==
    /\ lastCall.op = "recordPayment"
    /\ lastCall.outcome = "Insufficient payment amount"
    /\ ~getPaymentRequirement(Other, PremiumResource).isActive
    /\ \E id \in DOMAIN paymentRecords :
         /\ paymentRecords[id].requirementId = RequirementIdOf(Merchant, PremiumResource)
         /\ paymentRecords[id].amount =
              getPaymentRequirement(Merchant, PremiumResource).maxAmountRequired

----------------------------------------------------------------------------
(* Properties of the status service *)

\* The slot's recordPayment succeeded and its markPaymentSettled has just failed
MarkFailedAfterRecord(s) ==
    /\ settle[s].pc = "markPaymentSettled"
    /\ settle'[s].pc = "failed"

\* C27: when, in settlePayment, recordPayment succeeds and markPaymentSettled then
\* fails, settlePayment reports failure, the record is present with settled = false,
\* and getPaymentStatus for that id returns a status other than 'settled', not an
\* error.
C27_RecordedButUnsettled ==
    [][\A s \in Slots :
          MarkFailedAfterRecord(s) =>
             LET paymentId == settle[s].paymentId
                 status == getPaymentStatus(paymentId, clock, "answer")'
             IN /\ settle'[s].error # NoError
                /\ settle'[s].response = <<>>
                /\ paymentId \in DOMAIN paymentRecords'
                /\ ~paymentRecords'[paymentId].settled
                /\ ~status.threw
                /\ status.found
                /\ status.status \in {"verified", "expired"}]_vars

\* A well-formed status request has just been answered from a registry read
StatusAnswered ==
    /\ statusCall' # statusCall
    /\ statusCall'.rpc = "answer"
    /\ statusCall'.paymentId # MalformedPaymentId

\* The status the record's settled flag and the timeout of the requirement it was
\* recorded against give at the second `now`
SpecifiedStatus(record, now) ==
    LET requirement ==
            getPaymentRequirement(record.requirementId[1], record.requirementId[2])
    IN IF record.settled THEN "settled"
       ELSE IF now > record.timestamp + requirement.maxTimeoutSeconds THEN "expired"
       ELSE "verified"

\* C28: getPaymentStatus is a read-only projection of the record: 'settled' iff the
\* record's settled flag is set; for an unsettled record 'expired' iff now exceeds
\* the record's timestamp plus the requirement's maxTimeoutSeconds, else 'verified';
\* NotFound for an id with no record.
C28_StatusProjection ==
    [][StatusAnswered =>
         LET record == getPaymentRecord(statusCall'.paymentId)
             response == statusCall'.response
         IN /\ UNCHANGED registryVars
            /\ IF record.timestamp = 0
               THEN response.statusCode = 404
               ELSE /\ response.statusCode = 200
                    /\ response.body.status = SpecifiedStatus(record, statusCall'.now)]_vars

----------------------------------------------------------------------------
(* Properties of the SDK server and its middleware *)

ReachedHandler(r) == middleware[r].pc = "next"

\* C29: the middleware calls next only after the facilitator reported isValid = true
\* for the request's X-Payment header and then success = true for its settlement, in
\* that order; a request without an X-Payment header gets a 402 challenge and never
\* reaches the handler.
C29_NextOnlyAfterVerifyAndSettle ==
    \A r \in HttpRequests :
        LET call == middleware[r] IN
        /\ ReachedHandler(r) =>
             /\ call.paymentHeader \notin {"undefined", ""}
             /\ call.verifyReply.kind = "ok"
             /\ call.verifyReply.data.isValid = TRUE
             /\ call.settleReply.kind = "ok"
             /\ call.settleReply.data.success = TRUE
             /\ SubSeq(call.calls, 1, 2) = <<"verifyPayment", "settlePayment">>
             /\ call.calls[Len(call.calls)] = "next"
        /\ (call.pc # "idle" /\ call.paymentHeader \in {"undefined", ""}) =>
             /\ call.response # <<>>
             /\ call.response.statusCode = 402
             /\ call.response.body.error = "Payment Required"
             /\ call.calls = <<>>
             /\ ~ReachedHandler(r)

\* One request reached the handler after a valid verdict and a successful
\* settlement while another, sent without the header, was challenged
C29_Witness ==
    /\ ReachedHandler("r1")
    /\ middleware["r1"].payment.paymentId = RegisteredPaymentId
    /\ middleware["r2"].paymentHeader = "undefined"
    /\ middleware["r2"].pc = "responded"
    /\ middleware["r2"].response.statusCode = 402

\* C30: X402Server.verifyPayment and settlePayment never throw: a facilitator error
\* response or a transport failure comes back as a result with isValid = false
\* (success = false, txHash = null, paymentId = null for settlePayment) and a reason.
C30_ServerNeverThrows ==
    \A r \in HttpRequests :
        LET call == middleware[r] IN
        /\ call.verification # <<>> =>
             /\ ~call.verification.threw
             /\ call.verifyReply.kind # "ok" =>
                  /\ call.verification.isValid = FALSE
                  /\ call.verification.invalidReason \notin {"undefined", "null", ""}
        /\ call.settlement # <<>> =>
             /\ ~call.settlement.threw
             /\ call.settleReply.kind # "ok" =>
                  /\ call.settlement.success = FALSE
                  /\ call.settlement.txHash = "null"
                  /\ call.settlement.paymentId = NoPaymentId
                  /\ call.settlement.error \notin {"undefined", "null", ""}
        /\ (call.response # <<>> /\ call.response.statusCode = 500) =>
             call.response.body.error # "Payment processing failed"

\* The facilitator could not be reached for one request's verification and
\* answered another's settlement with an error page carrying no message
C30_Witness ==
    /\ middleware["r1"].verifyReply = NetworkError
    /\ middleware["r1"].verification.invalidReason = NetworkError.message
    /\ middleware["r2"].settleReply = HttpError(502, "undefined")
    /\ middleware["r2"].settlement.error = "Request failed with status code 502"
    /\ middleware["r2"].response.statusCode = 500

----------------------------------------------------------------------------
(* Properties of the escrow contract *)

\* A releaseEscrow or refundEscrow transaction has just been mined
PayoutStep ==
    /\ escrowCall'.op \in {"releaseEscrow", "refundEscrow"}
    /\ blockTimestamp' = blockTimestamp

PaidOut(status) == status \in {"Released", "Refunded"}

\* C31: an escrow pays out at most once: releaseEscrow and refundEscrow succeed only
\* on an Active escrow and move it to Released, respectively Refunded; both are
\* terminal, and a release or refund of an escrow already paid out reverts with
\* "Escrow not active" and transfers nothing.
C31_PaysOutOnce ==
    [][/\ \A id \in DOMAIN escrows :
            PaidOut(escrows[id].status) => escrows'[id].status = escrows[id].status
       /\ PayoutStep =>
            LET id == escrowCall'.escrowId IN
            /\ escrowCall'.outcome = "ok" =>
                 /\ getEscrowStatus(id) = "Active"
                 /\ id \in DOMAIN escrows'
                 /\ escrows'[id].status =
                      (IF escrowCall'.op = "releaseEscrow" THEN "Released" ELSE "Refunded")
                 /\ escrowCall'.transferred = getEscrow(id).amount
            /\ (PaidOut(getEscrowStatus(id))
                  /\ escrowCall'.outcome # "AccessControlUnauthorizedAccount") =>
                 /\ escrowCall'.outcome = "Escrow not active"
                 /\ escrowCall'.transferred = 0
                 /\ UNCHANGED <<escrows, escrowFunds>>]_vars

\* C32: payouts are authorised: releaseEscrow succeeds only for a facilitator;
\* refundEscrow on an Active escrow succeeds only for the payer, a facilitator, or
\* anyone once the block time is strictly after expiresAt; any other caller at or
\* before expiresAt gets "Not authorized to refund" and the escrow stays Active with
\* its funds held.
C32_PayoutsAuthorised ==
    [][PayoutStep =>
         LET id == escrowCall'.escrowId
             caller == escrowCall'.caller
             escrow == getEscrow(id)
             entitled == \/ caller = escrow.payer
                         \/ escrowHasRole(FACILITATOR_ROLE, caller)
                         \/ blockTimestamp > escrow.expiresAt
         IN IF escrowCall'.op = "releaseEscrow"
            THEN escrowCall'.outcome = "ok" => escrowHasRole(FACILITATOR_ROLE, caller)
            ELSE escrow.status = "Active" =>
                   IF entitled
                   THEN escrowCall'.outcome \in {"ok", "Native transfer failed"}
                   ELSE /\ escrowCall'.outcome = "Not authorized to refund"
                        /\ UNCHANGED <<escrows, escrowFunds>>
                        /\ getEscrowStatus(id) = "Active"]_vars

\* A third party was refused the refund of an Active escrow in the very second it
\* expires, while another escrow has been refunded
C32_Witness ==
    /\ escrowCall.op = "refundEscrow"
    /\ escrowCall.caller = Other
    /\ escrowCall.outcome = "Not authorized to refund"
    /\ getEscrow(escrowCall.escrowId).expiresAt = blockTimestamp
    /\ getEscrow(escrowCall.escrowId).amount > 0
    /\ \E id \in DOMAIN escrows :
         /\ escrows[id].status = "Refunded"
         /\ escrows[id].amount > 0

----------------------------------------------------------------------------
(* Properties of the token manager *)

TokenState == <<tokens, tokenList, supportedTokens>>

TokenCallStep == <<TokenState, tokenCall>>' # <<TokenState, tokenCall>>

\* C33: isSupportedToken(t) is true exactly when t has been added and not removed
\* since, whatever its isActive flag: no token is supported after construction, a
\* call changes the answer only for the token a successful addSupportedToken added
\* (to true) or a successful removeSupportedToken removed (to false); adding an
\* existing token and removing or updating a non-existent one revert, and a
\* reverted call leaves the token state unchanged
C33_SupportedIffAdded ==
    /\ tokenCall.op = "constructor" => \A t \in TokenAddresses : ~isSupportedTokenOnChain(t)
    /\ [][TokenCallStep =>
            LET call == tokenCall'
                supported == isSupportedTokenOnChain(call.token)
            IN /\ \A t \in TokenAddresses :
                    isSupportedTokenOnChain(t)' =
                        IF call.outcome = "ok" /\ call.token = t /\ call.op = "addSupportedToken"
                        THEN TRUE
                        ELSE IF call.outcome = "ok" /\ call.token = t
                                /\ call.op = "removeSupportedToken"
                        THEN FALSE
                        ELSE isSupportedTokenOnChain(t)
               /\ (call.op = "addSupportedToken" /\ supported) => call.outcome # "ok"
               /\ (call.op \in {"removeSupportedToken", "updateTokenStatus"} /\ ~supported)
                      => call.outcome # "ok"
               /\ call.outcome # "ok" => UNCHANGED TokenState]_vars

\* A removal of a token that is not there was refused while a deactivated token is
\* still supported
C33_Witness ==
    /\ tokenCall.op = "removeSupportedToken"
    /\ tokenCall.outcome = "Token does not exist"
    /\ \E t \in TokenAddresses : isSupportedTokenOnChain(t) /\ ~getTokenInfo(t).isActive

Occurrences(list, x) == Cardinality({ i \in DOMAIN list : list[i] = x })

\* C34: getAllSupportedTokens holds every supported token exactly once and nothing
\* else, and getActiveTokens holds exactly the supported tokens whose isActive flag
\* is set, each once
C34_TokenListsExact ==
    /\ \A t \in TokenAddresses :
          Occurrences(getAllSupportedTokens, t) = IF isSupportedTokenOnChain(t) THEN 1 ELSE 0
    /\ \A t \in TokenAddresses :
          Occurrences(getActiveTokens, t) =
              IF isSupportedTokenOnChain(t) /\ getTokenInfo(t).isActive THEN 1 ELSE 0

\* A removal moved the last token into the removed token's slot: the remaining list
\* is no longer in the order of addition, and one of its tokens is inactive
C34_Witness ==
    /\ tokenCall.op = "removeSupportedToken"
    /\ tokenCall.outcome = "ok"
    /\ Len(tokenList) = 2
    /\ getTokenInfo(tokenList[1]).addedAt > getTokenInfo(tokenList[2]).addedAt
    /\ Len(getActiveTokens) = 1

\* C39: a release or a refund of an escrow id that createEscrow never stored
\* (createdAt is still 0) fails and leaves the escrows and the held funds as they
\* were, so that only created escrows become Released or Refunded
C39_OnlyCreatedEscrowsPaidOut ==
    [][LET id == escrowCall'.escrowId IN
       (PayoutStep /\ getEscrow(id).createdAt = 0)
           => /\ escrowCall'.outcome # "ok"
              /\ UNCHANGED <<escrows, escrowFunds>>]_vars

RECURSIVE SumOfAmounts(_)
SumOfAmounts(ids) ==
    IF ids = {} THEN 0
    ELSE LET id == CHOOSE x \in ids : TRUE
         IN escrows[id].amount + SumOfAmounts(ids \ {id})

ActiveEscrowsOf(asset) ==
    { id \in DOMAIN escrows : escrows[id].status = "Active" /\ escrows[id].asset = asset }

\* C40: for each asset the funds the escrow contract holds equal the sum of the
\* amounts of its Active escrows
C40_FundsConserved ==
    \A asset \in {ZeroAddress, USDC} : held(asset) = SumOfAmounts(ActiveEscrowsOf(asset))

----------------------------------------------------------------------------
(* Properties of the payment ids and of the merchant's payment list *)

\* a recordPayment transaction has been mined in this step
RecordedStep ==
    /\ lastCall'.op = "recordPayment"
    /\ lastCall'.outcome = "ok"
    /\ merchantPayments' # merchantPayments

SamePaymentArguments(a, b) ==
    /\ a.requirementId = b.requirementId
    /\ a.payer = b.payer
    /\ a.amount = b.amount
    /\ a.txHash = b.txHash

ListedFor(payments, merchant, paymentId) ==
    \E i \in DOMAIN payments[merchant] : payments[merchant][i] = paymentId

\* C35: a recordPayment whose merchant, resource, payer, amount and txHash are those
\* of a record made at another block timestamp gets an id of its own and a record
\* of its own: the earlier record stays as it was and both ids are listed for the
\* merchant
C35_NewIdPerTimestamp ==
    [][RecordedStep =>
          LET new == lastCall'.paymentId IN
          /\ new \in DOMAIN paymentRecords'
          /\ paymentRecords'[new].timestamp = blockTimestamp
          /\ \A old \in DOMAIN paymentRecords, m \in Accounts :
                (/\ SamePaymentArguments(paymentRecords[old], paymentRecords'[new])
                 /\ paymentRecords[old].timestamp # blockTimestamp
                 /\ ListedFor(merchantPayments, m, old))
                    => /\ new # old
                       /\ paymentRecords'[old] = paymentRecords[old]
                       /\ ListedFor(merchantPayments', m, old)
                       /\ ListedFor(merchantPayments', m, new)]_vars

\* The same payment has been recorded at two block timestamps: two ids, two
\* records, both in the merchant's list
C35_Witness ==
    /\ lastCall.op = "recordPayment"
    /\ lastCall.outcome = "ok"
    /\ \E old \in DOMAIN paymentRecords :
          /\ old # lastCall.paymentId
          /\ SamePaymentArguments(paymentRecords[old], paymentRecords[lastCall.paymentId])
          /\ paymentRecords[old].timestamp < paymentRecords[lastCall.paymentId].timestamp
          /\ ListedFor(merchantPayments, Merchant, old)
          /\ ListedFor(merchantPayments, Merchant, lastCall.paymentId)

\* the ids of the records that recordPayment stored for the merchant
RecordsOf(merchant) ==
    { id \in DOMAIN paymentRecords :
        \E resource \in Resources :
            paymentRecords[id].requirementId = RequirementIdOf(merchant, resource) }

\* C36: getMerchantPayments(m) lists each of m's recorded ids exactly once: its
\* length is the number of m's records, every listed id has a record with
\* timestamp > 0, and a step only appends to the list
C36_MerchantListExact ==
    /\ [](\A m \in Accounts :
            LET listed == getMerchantPayments(m) IN
            /\ Len(listed) = Cardinality(RecordsOf(m))
            /\ \A i \in DOMAIN listed : getPaymentRecord(listed[i]).timestamp > 0
            /\ \A id \in RecordsOf(m) :
                  Cardinality({ i \in DOMAIN listed : listed[i] = id }) = 1)
    /\ [][\A m \in Accounts :
            /\ Len(merchantPayments'[m]) >= Len(merchantPayments[m])
            /\ SubSeq(merchantPayments'[m], 1, Len(merchantPayments[m])) = merchantPayments[m]]_vars

----------------------------------------------------------------------------
(* Properties of a retried settlement *)

\* C37: after a settlement whose markPaymentSettled failed, the retry with the same
\* payload works on the record the first attempt left: its recordPayment returns
\* that record's id and adds no record, and when the retry has finished that
\* record is settled
C37_RetrySettlesTheRecord ==
    [][MarkFailed("s1") =>
          LET original == settle["s1"].paymentId IN
          /\ (settle["s2"].pc = "recordPayment" /\ settle'["s2"].pc = "markPaymentSettled")
                => /\ settle'["s2"].paymentId = original
                   /\ DOMAIN paymentRecords' = DOMAIN paymentRecords
          /\ (settle["s2"].pc = "markPaymentSettled" /\ settle'["s2"].pc = "done")
                => /\ original \in DOMAIN paymentRecords'
                   /\ paymentRecords'[original].settled]_vars

\* the facilitator's recordPayment transaction of slot s reaches the registry in
\* this step
RegistryReached(s) ==
    /\ settle[s].pc = "recordPayment"
    /\ settle'[s].calls # settle[s].calls

\* C38: a settlement that has verified the payment and confirmed the transfer to
\* the requirement's payTo gets its payment recorded under the merchant's
\* requirement for the resource, whoever payTo is
C38_ActiveRequirementSettles ==
    [][\A s \in Slots :
          RegistryReached(s)
              => /\ lastCall'.outcome = "ok"
                 /\ lastCall'.paymentId \in DOMAIN paymentRecords'
                 /\ paymentRecords'[lastCall'.paymentId].requirementId
                        = RequirementIdOf(Merchant, PremiumResource)]_vars

====
